---------------------------- MODULE Spec2Model ----------------------------
(***************************************************************************)
(* Locator layer of playwright-rust (src/src/imp/locator.rs and the public *)
(* wrappers of src/src/api/locator.rs) as a state machine.                 *)
(*                                                                         *)
(* Selector strings are sequences of one-character strings, so that the    *)
(* string scanning of the code (starts_with, contains, find, slicing,      *)
(* parse::<usize>, format!) is computed the way the code computes it.      *)
(*                                                                         *)
(* Intermediate results are handed on as operator parameters (the          *)
(* "...Of", "...With" operators) so that each is computed once.            *)
(***************************************************************************)
EXTENDS Integers, Sequences, FiniteSets, TLC

(***************************************************************************)
(* String primitives of the Rust standard library used by the code.        *)
(***************************************************************************)

\* str::starts_with
StartsWith(s, p) ==
    /\ Len(p) <= Len(s)
    /\ SubSeq(s, 1, Len(p)) = p

\* The least offset of a set of offsets, -1 for None
FirstOf(hits) ==
    IF hits = {} THEN -1 ELSE CHOOSE k \in hits : \A j \in hits : k <= j

\* str::find: 0-based byte offset of the first occurrence of p, -1 for None
Find(s, p) ==
    FirstOf({ k \in 0..(Len(s) - Len(p)) : SubSeq(s, k + 1, k + Len(p)) = p })

\* str::contains
Contains(s, p) == Find(s, p) >= 0

\* &s[from..] (0-based, to the end)
SliceFrom(s, from) == SubSeq(s, from + 1, Len(s))

\* &s[from..to] (0-based, to exclusive)
Slice(s, from, to) == SubSeq(s, from + 1, to)

Digits == <<"0", "1", "2", "3", "4", "5", "6", "7", "8", "9">>

DigitVal(c) == (CHOOSE d \in 1..10 : Digits[d] = c) - 1

\* i32::MAX, the largest index nth can be given
MaxI32 == 2147483647

\* A usize (64 bits) that does not fit TLC's integers is held exactly, as its
\* decimal digits without leading zeros: the records that carry a parsed
\* usize have the number in val (index, array_index) when big is empty, and
\* in big otherwise; val is then MaxI32, which compares with every length
\* and index of the model as the number itself does.

\* The digits of a number without its leading zeros
Significant(s) ==
    IF \A k \in 1..Len(s) : s[k] = "0" THEN <<"0">>
    ELSE SubSeq(s, CHOOSE k \in 1..Len(s) :
                      s[k] # "0" /\ \A j \in 1..(k - 1) : s[j] = "0",
                Len(s))

\* a <= b, for numbers written without leading zeros
DigitsLeq(a, b) ==
    \/ Len(a) < Len(b)
    \/ /\ Len(a) = Len(b)
       /\ \A k \in 1..Len(a) :
             (\A j \in 1..(k - 1) : a[j] = b[j])
                => DigitVal(a[k]) <= DigitVal(b[k])

\* s - 1, for a number s >= 1 written without leading zeros whose last digit
\* other than 0 is at k
Pred(s, k) ==
    Significant([j \in 1..Len(s) |->
                    IF j < k THEN s[j]
                    ELSE IF j = k THEN Digits[DigitVal(s[j])]
                    ELSE "9"])

\* The number the digits s write after acc, for a number up to MaxI32
RECURSIVE DigitsValue(_, _)
DigitsValue(s, acc) ==
    IF s = <<>> THEN acc
    ELSE DigitsValue(Tail(s), acc * 10 + DigitVal(Head(s)))

\* One or more decimal digits, read as a usize: Err(Empty / InvalidDigit) for
\* anything else, Err(PosOverflow) above usize::MAX = 18446744073709551615
ParseDigits(body) ==
    IF body = <<>>
       \/ \E k \in 1..Len(body) : body[k] \notin {Digits[d] : d \in 1..10}
    THEN [ok |-> FALSE, val |-> 0, big |-> <<>>]
    \* up to nine digits
    ELSE IF Len(body) < 10
    THEN [ok |-> TRUE, val |-> DigitsValue(body, 0), big |-> <<>>]
    ELSE IF ~DigitsLeq(Significant(body),
                       <<"1", "8", "4", "4", "6", "7", "4", "4", "0", "7",
                         "3", "7", "0", "9", "5", "5", "1", "6", "1", "5">>)
    THEN [ok |-> FALSE, val |-> 0, big |-> <<>>]
    ELSE IF DigitsLeq(Significant(body),
                      <<"2", "1", "4", "7", "4", "8", "3", "6", "4", "7">>)
    THEN [ok |-> TRUE, val |-> DigitsValue(Significant(body), 0),
          big |-> <<>>]
    ELSE [ok |-> TRUE, val |-> MaxI32, big |-> Significant(body)]

\* str::parse::<usize>: an optional "+", then one or more decimal digits.
\* ok = FALSE is Err(ParseIntError).
ParseUsize(s) ==
    ParseDigits(IF s # <<>> /\ Head(s) = "+" THEN Tail(s) ELSE s)

RECURSIVE NatToStr(_)
NatToStr(n) ==
    IF n < 10 THEN <<Digits[n + 1]>>
    ELSE NatToStr(n \div 10) \o <<Digits[(n % 10) + 1]>>

\* format!("{}", i) of an i32.  The digits of a negative i are those of
\* m + 1 for m = -(i + 1), which stays within 32 bits for i32::MIN too.
FormatInt(i) ==
    IF i >= 0 THEN NatToStr(i)
    ELSE IF (0 - (i + 1)) % 10 = 9
    THEN <<"-">> \o NatToStr((0 - (i + 1)) \div 10 + 1) \o <<"0">>
    ELSE <<"-">>
         \o (IF 0 - (i + 1) < 10 THEN <<>>
             ELSE NatToStr((0 - (i + 1)) \div 10))
         \o <<Digits[((0 - (i + 1)) % 10) + 2]>>

(***************************************************************************)
(* Selector text the code scans for.                                       *)
(***************************************************************************)

\* marker: ")>>>nth-index-" (14 bytes); nth_of_type: ":nth-of-type("
\* (13 bytes); xpath: "xpath="; ancestor: "ancestor::"
Tokens ==
    [marker |-> <<")", ">", ">", ">", "n", "t", "h", "-", "i", "n", "d", "e",
                  "x", "-">>,
     nth_of_type |-> <<":", "n", "t", "h", "-", "o", "f", "-", "t", "y", "p",
                       "e", "(">>,
     xpath |-> <<"x", "p", "a", "t", "h", "=">>,
     ancestor |-> <<"a", "n", "c", "e", "s", "t", "o", "r", ":", ":">>]

(***************************************************************************)
(* The document and the remote query engine behind the Frame delegate.     *)
(* The engine is an external collaborator: it is modelled from the         *)
(* delegate contract (query_selector, query_selector_all, one primitive    *)
(* per action, evaluate) with the CSS meaning of a selector list and of    *)
(* :nth-of-type (position among the siblings of the same type).            *)
(***************************************************************************)

\* The page, in document order. parent = 0 is the body.
\*   <a id=1> <a id=2/> <b id=3/> </a>  <a id=4/>  <b id=5/>
Doc == <<
    [tag |-> <<"a">>, parent |-> 0, editable |-> TRUE],
    [tag |-> <<"a">>, parent |-> 1, editable |-> FALSE],
    [tag |-> <<"b">>, parent |-> 1, editable |-> FALSE],
    [tag |-> <<"a">>, parent |-> 0, editable |-> TRUE],
    [tag |-> <<"b">>, parent |-> 0, editable |-> FALSE] >>

\* The selectors the page is queried with:
\*   simple    a
\*   compound  a, b
\*   pseudo    a:nth-of-type(1), b
\*   ancestor  xpath=//b/ancestor::a          (element 3 is a <b> in element 1)
\*   bare      //b/ancestor::a                (the same expression, no prefix)
\*   nested    xpath=//*[contains(name(),'b')] (its only comma is an argument
\*                                              separator)
Selectors ==
    [simple |-> <<"a">>,
     compound |-> <<"a", ",", " ", "b">>,
     pseudo |->
        <<"a", ":", "n", "t", "h", "-", "o", "f", "-", "t", "y", "p", "e",
          "(", "1", ")", ",", " ", "b">>,
     ancestor |->
        <<"x", "p", "a", "t", "h", "=", "/", "/", "b", "/", "a", "n", "c",
          "e", "s", "t", "o", "r", ":", ":", "a">>,
     bare |->
        <<"/", "/", "b", "/", "a", "n", "c", "e", "s", "t", "o", "r", ":",
          ":", "a">>,
     nested |->
        <<"x", "p", "a", "t", "h", "=", "/", "/", "*", "[", "c", "o", "n",
          "t", "a", "i", "n", "s", "(", "n", "a", "m", "e", "(", ")", ",",
          "'", "b", "'", ")", "]">>]

\* 1-based position of element e among its siblings of the same type
TypeIndex(e) ==
    1 + Cardinality({ f \in 1..(e - 1) :
                        /\ Doc[f].parent = Doc[e].parent
                        /\ Doc[f].tag = Doc[e].tag })

RECURSIVE TrimLeft(_)
TrimLeft(s) == IF s # <<>> /\ Head(s) = " " THEN TrimLeft(Tail(s)) ELSE s

RECURSIVE TrimRight(_)
TrimRight(s) ==
    IF s # <<>> /\ s[Len(s)] = " " THEN TrimRight(SubSeq(s, 1, Len(s) - 1)) ELSE s

\* The clauses of a selector list, split at its commas
RECURSIVE SplitCommas(_)
SplitAt(s, k) ==
    IF k < 0 THEN <<s>>
    ELSE <<Slice(s, 0, k)>> \o SplitCommas(SliceFrom(s, k + 1))

SplitCommas(s) == SplitAt(s, Find(s, <<",">>))

\* Length of the leading type name of a clause
RECURSIVE NameLen(_)
NameLen(s) ==
    IF s # <<>> /\ Head(s) \in {"a", "b", "c", "d", "e", "f", "g", "h", "i",
                                "j", "k", "l", "m", "n", "o", "p", "q", "r",
                                "s", "t", "u", "v", "w", "x", "y", "z"}
    THEN 1 + NameLen(Tail(s)) ELSE 0

\* The argument of one :nth-of-type(...): a signed integer. 0 and negative
\* positions are valid CSS and select nothing, and so does a position beyond
\* every element, however large (MaxI32 stands for one above usize too).
PseudoPos(neg, body, p) ==
    IF p.ok THEN [ok |-> TRUE, pos |-> IF neg THEN 0 ELSE p.val]
    ELSE IF body = <<>>
            \/ \E k \in 1..Len(body) :
                  body[k] \notin {Digits[d] : d \in 1..10}
    THEN [ok |-> FALSE, pos |-> 0]
    ELSE [ok |-> TRUE, pos |-> IF neg THEN 0 ELSE MaxI32]

PseudoArg(s) ==
    IF s # <<>> /\ Head(s) = "-"
    THEN PseudoPos(TRUE, Tail(s), ParseDigits(Tail(s)))
    ELSE PseudoPos(FALSE, s, ParseDigits(s))

\* The :nth-of-type(...) suffixes of a clause: ok, and the positions asked for
RECURSIVE PseudoList(_)
PseudoJoin(arg, more) ==
    [ok |-> arg.ok /\ more.ok, pos |-> {arg.pos} \cup more.pos]

PseudoClose(rest, close) ==
    IF close < 0 THEN [ok |-> FALSE, pos |-> {}]
    ELSE PseudoJoin(PseudoArg(Slice(rest, 0, close)),
                    PseudoList(SliceFrom(rest, close + 1)))

PseudoList(s) ==
    IF s = <<>> THEN [ok |-> TRUE, pos |-> {}]
    ELSE IF ~StartsWith(s, Tokens.nth_of_type) THEN [ok |-> FALSE, pos |-> {}]
    ELSE PseudoClose(SliceFrom(s, Len(Tokens.nth_of_type)),
                     Find(SliceFrom(s, Len(Tokens.nth_of_type)), <<")">>))

\* One clause of a CSS selector list: a type name, then :nth-of-type suffixes
ClauseOf(n, tag, ps) == [ok |-> n > 0 /\ ps.ok, tag |-> tag, pos |-> ps.pos]

ClauseNamed(t, n) == ClauseOf(n, Slice(t, 0, n), PseudoList(SliceFrom(t, n)))

ClauseTrimmed(t) == ClauseNamed(t, NameLen(t))

CssClause(c) == ClauseTrimmed(TrimRight(TrimLeft(c)))

RECURSIVE SeqOfSet(_)
SeqOfSet(S) ==
    IF S = {} THEN <<>>
    ELSE <<FirstOf(S)>> \o SeqOfSet(S \ {FirstOf(S)})

\* The elements some clause selects, in document order; a clause that does not
\* parse makes the whole selector invalid.
CssMatches(parsed) ==
    IF \A k \in 1..Len(parsed) : parsed[k].ok
    THEN [valid |-> TRUE,
          els |-> SeqOfSet({ e \in DOMAIN Doc :
                               \E k \in 1..Len(parsed) :
                                  /\ parsed[k].tag = Doc[e].tag
                                  /\ \A q \in parsed[k].pos : TypeIndex(e) = q })]
    ELSE [valid |-> FALSE, els |-> <<>>]

CssClauses(cs) == [k \in 1..Len(cs) |-> CssClause(cs[k])]

\* document.querySelectorAll
CssQuery(sel) == CssMatches(CssClauses(SplitCommas(sel)))

\* document.evaluate for the XPath expressions of the model
XPathQuery(sel) ==
    IF sel = Selectors.ancestor THEN [valid |-> TRUE, els |-> <<1>>]
    ELSE IF sel = Selectors.nested THEN [valid |-> TRUE, els |-> <<3, 5>>]
    ELSE [valid |-> FALSE, els |-> <<>>]

\* The engine's resolution of a selector handed to the Frame delegate: an
\* XPath expression is written with the "xpath=" prefix or bare, starting "//"
EngineQuery(sel) ==
    IF StartsWith(sel, Tokens.xpath) THEN XPathQuery(sel)
    ELSE IF StartsWith(sel, <<"/", "/">>) THEN XPathQuery(Tokens.xpath \o sel)
    ELSE CssQuery(sel)

(***************************************************************************)
(* State.                                                                  *)
(***************************************************************************)
VARIABLES
    locators,   \* the Locator instances: [channel, selector, frame]; channel
                \* is Option<ChannelOwner> as a set ({} = None, {guid} = Some),
                \* frame the id of the frame its Weak<Frame> points to
    frameLive,  \* whether the registry still holds the frame (its Arc)
    value,      \* the page: the value of each element (form state)
    nextGuid,   \* the peer's next object guid
    pc,         \* "ready": the caller may issue an operation;
                \* "building": the caller holds a builder (in last);
                \* "pending": the operation sent a message and waits for
                \* its pending call to complete;
                \* "suspended": the operation called the frame or an
                \* element and waits at the .await of that call;
                \* "lookup": a chaining call has the peer's reply and is
                \* about to look the guid up in the registry;
                \* "returned": the last operation's result is being taken
    last,       \* the operation being built, running or just completed:
                \* what was asked, the delegate and peer calls it has made
                \* (calls) and those it goes on to make (todo), its result
                \* and the page its calls leave (after)
    disposed,   \* the locators whose object the registry has dropped (a
                \* call that upgraded the handle before holds its own Arc)
    sessionOpen,\* whether the session (connection and registry) is up
    late,       \* whether the reply to a call that is over (timed out or
                \* dropped by its caller) is still to come
    flight      \* the click of a second caller: loc is its locator while it
                \* awaits the frame's reply (0: none), opts the arguments it
                \* handed over; done and res say that it returned and
                \* what, sole that its locator or its frame was gone once
                \* it had (the click held the last Arc of it)

vars ==
    <<locators, frameLive, value, nextGuid, pc, last, disposed, sessionOpen,
      late, flight>>

(***************************************************************************)
(* Results: Result<T, Arc<Error>>, or a panic (unwind out of the call).    *)
(* A value carries the element it was read from in n (0: none); text is    *)
(* the selector text selector() returns.                                   *)
(***************************************************************************)
Ok(tag, n, s) ==
    [kind |-> "ok", tag |-> tag, n |-> n, s |-> s, err |-> "", text |-> <<>>]
Err(e) ==
    [kind |-> "err", tag |-> "", n |-> 0, s |-> "", err |-> e, text |-> <<>>]
Panic ==
    [kind |-> "panic", tag |-> "", n |-> 0, s |-> "", err |-> "",
     text |-> <<>>]
Unit == Ok("unit", 0, "")

IsOk(r) == r.kind = "ok"

\* Option<T> as a set
None == {}
Some(x) == {x}

NoOpts == [timeout |-> None]

\* One call on the Frame delegate, an element handle or the peer channel
Call(fn, sel, el, arg, idx, opts, ok) ==
    [fn |-> fn, sel |-> sel, el |-> el, arg |-> arg, idx |-> idx,
     opts |-> opts, ok |-> ok]

\* What an operation did: its result, the calls it made in order, the page after
Out(res, calls, val) == [res |-> res, calls |-> calls, value |-> val]

\* out, after the calls already made
After(calls, out) == Out(out.res, calls \o out.calls, out.value)

\* The selector of the object the peer creates for a chaining request
PeerSelector(sel, method, idx) ==
    sel \o <<" ", ">", ">", " ">> \o
    (CASE method = "first" -> <<"n", "t", "h", "=", "0">>
       [] method = "last" -> <<"n", "t", "h", "=", "-", "1">>
       [] method = "nth" -> <<"n", "t", "h", "=">> \o FormatInt(idx)
       [] OTHER -> <<"h", "a", "s", "-", "t", "e", "x", "t", "=", "t">>)

\* The peer's own resolution of a locator's selector: the parts of a chain
\* "<selector> >> nth=<k>" narrow the matches of the part before them
\* (nth=-1 is the last match; a has-text part keeps the elements with text).
PeerIndexed(q, k) ==
    IF k.ok /\ k.val < Len(q.els)
    THEN [valid |-> TRUE, els |-> <<q.els[k.val + 1]>>]
    ELSE [valid |-> TRUE, els |-> <<>>]

PeerPick(q, part) ==
    IF ~q.valid \/ q.els = <<>> \/ ~StartsWith(part, <<"n", "t", "h", "=">>) THEN q
    ELSE IF SliceFrom(part, 4) = <<"-", "1">>
    THEN [valid |-> TRUE, els |-> <<q.els[Len(q.els)]>>]
    ELSE PeerIndexed(q, ParseUsize(SliceFrom(part, 4)))

RECURSIVE PeerParts(_, _)
PeerStep(q, rest, k) ==
    IF k < 0 THEN PeerPick(q, rest)
    ELSE PeerParts(PeerPick(q, Slice(rest, 0, k)), SliceFrom(rest, k + 4))

PeerParts(q, rest) == PeerStep(q, rest, Find(rest, <<" ", ">", ">", " ">>))

PeerSplit(sel, k) ==
    IF k < 0 THEN EngineQuery(sel)
    ELSE PeerParts(EngineQuery(Slice(sel, 0, k)), SliceFrom(sel, k + 4))

PeerQuery(sel) == PeerSplit(sel, Find(sel, <<" ", ">", ">", " ">>))

\* The page after a call that is over: a fill that succeeded wrote the value
\* of its element, a clear the peer carried out emptied it
Written(call, val) ==
    IF ~call.ok THEN val
    ELSE IF call.fn \in {"frame.fill", "element.fill"}
    THEN [val EXCEPT ![call.el] = call.arg]
    ELSE IF call.fn = "channel.send" /\ call.arg = "clear"
    THEN [val EXCEPT ![PeerQuery(call.sel).els[1]] = ""]
    ELSE val

(***************************************************************************)
(* The Frame delegate and element handles (external collaborators).        *)
(* env is the set of faults of this call: "prim" (an action or query       *)
(* primitive fails in transport), "query" (query_selector(_all) fails),    *)
(* "eval" (script evaluation fails), "gone" (the element handles returned  *)
(* by a query no longer upgrade), "peer" (a peer message fails), "late"    *)
(* (the reply to a peer message does not come).                            *)
(***************************************************************************)

\* The value a primitive returns when it ran on element el
PrimValue(fn, el) ==
    CASE fn \in {"text_content", "get_attribute"} -> Ok("some", el, "")
      [] fn \in {"inner_text", "inner_html"} -> Ok("str", el, "")
      [] fn \in {"is_visible", "is_hidden", "is_enabled", "is_disabled",
                 "is_checked", "is_editable"} -> Ok("bool", el, "")
      [] fn = "select_option" -> Ok("vec", el, "")
      [] OTHER -> Unit

\* The primitive's result and the page after it
Outcome(res, call, val) == Out(res, <<call>>, Written(call, val))

\* A primitive on a resolved element: fill writes the element's value and is
\* refused by an element that is not editable.
ElementResult(fn, el, env) ==
    IF "prim" \in env THEN Err("Transport")
    ELSE IF fn = "fill" /\ ~Doc[el].editable THEN Err("ErrorResponded")
    ELSE PrimValue(fn, el)

PrimitiveWith(res, prefix, fn, sel, el, arg, opts, val) ==
    Outcome(res, Call(prefix \o fn, sel, el, arg, -1, opts, IsOk(res)), val)

\* frame.<fn>(selector, ...): the engine resolves the selector to its first
\* match and waits for it; no match ends in a timeout, a selector the engine
\* cannot parse in an error reply.
FrameResolved(q, fn, sel, arg, opts, env, val) ==
    IF "prim" \in env
    THEN PrimitiveWith(Err("Transport"), "frame.", fn, sel, 0, arg, opts, val)
    ELSE IF ~q.valid
    THEN PrimitiveWith(Err("ErrorResponded"), "frame.", fn, sel, 0, arg, opts, val)
    ELSE IF q.els = <<>>
    THEN PrimitiveWith(Err("Timeout"), "frame.", fn, sel, 0, arg, opts, val)
    ELSE PrimitiveWith(ElementResult(fn, q.els[1], env), "frame.", fn, sel,
                       q.els[1], arg, opts, val)

FramePrimitive(fn, sel, arg, opts, env, val) ==
    FrameResolved(EngineQuery(sel), fn, sel, arg, opts, env, val)

\* element.<fn>(...) on an upgraded element handle
ElementPrimitive(fn, el, arg, opts, env, val) ==
    PrimitiveWith(ElementResult(fn, el, env), "element.", fn, <<>>, el, arg,
                  opts, val)

\* The reply of a query: [ok, err, els, call]
QueryWith(q, fn, sel, env, all) ==
    [ok |-> "query" \notin env /\ q.valid,
     err |-> IF "query" \in env THEN "Transport" ELSE "ErrorResponded",
     \* every match, or the first one only
     els |-> IF "query" \in env \/ ~q.valid THEN <<>>
             ELSE IF all \/ q.els = <<>> THEN q.els
             ELSE <<q.els[1]>>,
     call |-> Call(fn, sel, 0, "", -1, NoOpts, "query" \notin env /\ q.valid)]

\* frame.query_selector_all(selector)
QuerySelectorAll(sel, env) ==
    QueryWith(EngineQuery(sel), "frame.query_selector_all", sel, env, TRUE)

\* frame.query_selector(selector): at most one element
QuerySelector(sel, env) ==
    QueryWith(EngineQuery(sel), "frame.query_selector", sel, env, FALSE)

\* Weak<ElementHandle>::upgrade
Upgrades(el, env) == "gone" \notin env

\* frame.evaluate(script): the scripts the locator builds, by what they do.
\*   "xpath_text": document.evaluate(expr).singleNodeValue.textContent, null
\*                 when there is no node or the expression throws (try/catch);
\*   "value_nth":  document.querySelectorAll(sel)[idx].value || '' ('' when
\*                 there is no such element);
\*   "value":      document.querySelector(sel).value || ''.
\* The script text holds the selector with its single quotes escaped; the
\* script's string literal denotes the selector again.
RECURSIVE EscapeQuotes(_)
EscapeQuotes(s) ==
    IF s = <<>> THEN <<>>
    ELSE IF Head(s) = "'" THEN <<"\\", "'">> \o EscapeQuotes(Tail(s))
    ELSE <<Head(s)>> \o EscapeQuotes(Tail(s))

RECURSIVE JsLiteral(_)
JsLiteral(s) ==
    IF s = <<>> THEN <<>>
    ELSE IF Head(s) = "\\" /\ Len(s) >= 2 THEN <<s[2]>> \o JsLiteral(SubSeq(s, 3, Len(s)))
    ELSE <<Head(s)>> \o JsLiteral(Tail(s))

ValueAt(cq, idx, val) ==
    IF ~cq.valid THEN Err("ErrorResponded")
    ELSE IF idx < Len(cq.els)
    THEN Ok("str", cq.els[idx + 1], val[cq.els[idx + 1]])
    ELSE Ok("str", 0, "")

ScriptResult(script, sel, idx, val) ==
    CASE script = "xpath_text" ->
            IF XPathQuery(Tokens.xpath \o sel).valid
               /\ XPathQuery(Tokens.xpath \o sel).els # <<>>
            THEN Ok("some", XPathQuery(Tokens.xpath \o sel).els[1], "")
            ELSE Ok("none", 0, "")
      [] script = "value_nth" -> ValueAt(CssQuery(sel), idx, val)
      [] OTHER -> ValueAt(CssQuery(sel), 0, val)

EvaluateReply(res, script, text, idx) ==
    [res |-> res,
     call |-> Call("frame.evaluate", text, res.n, script, idx, NoOpts, IsOk(res))]

Evaluate(script, text, idx, env, val) ==
    EvaluateReply(IF "eval" \in env THEN Err("Transport")
                  ELSE ScriptResult(script, JsLiteral(text), idx, val),
                  script, text, idx)

(***************************************************************************)
(* The peer (external collaborator): a message addressed to a guid, with a *)
(* method name and arguments; the peer resolves the selector on its side.  *)
(***************************************************************************)

\* The peer's answer, q being its resolution of the locator's selector
PeerReply(method, q, guid, val) ==
    CASE method = "count" ->
            IF q.valid THEN Ok("usize", Len(q.els), "") ELSE Err("ErrorResponded")
      [] method \in {"first", "last", "nth", "filter"} -> Ok("guid", guid, "")
      [] OTHER ->
            IF ~q.valid THEN Err("ErrorResponded")
            ELSE IF q.els = <<>> THEN Err("Timeout")
            ELSE IF method = "inputValue" THEN Ok("str", q.els[1], val[q.els[1]])
            ELSE IF method = "clear" /\ ~Doc[q.els[1]].editable
            THEN Err("ErrorResponded")
            ELSE Ok("unit", q.els[1], "")

\* The reply, the message it answers, and the page after the peer acted
Sent(r, l, method, idx, opts, val) ==
    Out(r,
        <<Call("channel.send", l.selector, CHOOSE g \in l.channel : TRUE,
               method, idx, opts, IsOk(r))>>,
        Written(Call("channel.send", l.selector, CHOOSE g \in l.channel : TRUE,
                     method, idx, opts, IsOk(r)), val))

\* A call that has no result: it waits for a reply that does not come
NoReply ==
    [kind |-> "none", tag |-> "", n |-> 0, s |-> "", err |-> "",
     text |-> <<>>]

\* send_message!(self, method, args): self.channel() panics on a locator
\* without a channel (impl RemoteObject for Locator); errors of the channel
\* and of the peer return early.  When the reply does not come, a call whose
\* arguments carry a timeout ends with Error::Timeout; the locator gives the
\* others (count, first, last, nth, filter: Map::new() and their own
\* arguments) no timeout, and they wait.
SendMessage(l, method, idx, opts, env, val) ==
    IF l.channel = None THEN Out(Panic, <<>>, val)
    ELSE Sent(IF "peer" \in env THEN Err("Transport")
              ELSE IF "late" \in env
              THEN (IF "timeout" \in DOMAIN opts /\ opts.timeout # None
                    THEN Err("Timeout") ELSE NoReply)
              ELSE PeerReply(method, PeerQuery(l.selector), nextGuid, val),
              l, method, idx, opts, val)

(***************************************************************************)
(* imp::Locator (src/src/imp/locator.rs).  Every operation is an operator  *)
(* from the locator, its arguments, the faults of the call and the page to *)
(* Out(result, calls, page after).                                         *)
(***************************************************************************)

NotFound(val) == Out(Err("ObjectNotFound"), <<>>, val)

\* self.frame.upgrade(): the Weak<Frame> upgrades while an Arc<Frame> is
\* left, the registry's or the one a call holds that upgraded before and is
\* suspended at an .await (the click in flight, the operation in last)
FrameUpgrades == frameLive \/ flight.loc # 0 \/ pc = "suspended"

\* upgrade(&self.inner): the Weak<LocatorImpl> of a handle or builder
\* upgrades while the registry holds the locator or a call that upgraded it
\* before is still running
LocatorUpgrades(i) ==
    \/ i \notin disposed
    \/ i = flight.loc
    \/ (pc \in {"pending", "suspended", "lookup"} /\ last.loc = i)

\* The marker scan every resolving operation repeats:
\*   starts_with("(") && contains(")>>>nth-index-"), find(")>>>nth-index-"),
\*   &selector[1..close_paren], &selector[close_paren + 14..], parse::<usize>()
MarkerOf(base_selector, index) ==
    [marker |-> index.ok, base_selector |-> base_selector,
     index |-> index.val, big |-> index.big]

MarkerAt(sel, close_paren) ==
    MarkerOf(Slice(sel, 1, close_paren),
             ParseUsize(SliceFrom(sel, close_paren + 14)))

ParseMarker(sel) ==
    IF StartsWith(sel, <<"(">>) /\ Contains(sel, Tokens.marker)
    THEN MarkerAt(sel, Find(sel, Tokens.marker))
    ELSE [marker |-> FALSE, base_selector |-> <<>>, index |-> 0,
          big |-> <<>>]

\* The frame operations that only hand the selector to the frame primitive
FrameOp(fn, l, arg, opts, env, val) ==
    IF FrameUpgrades
    THEN FramePrimitive(fn, l.selector, arg, opts, env, val)
    ELSE NotFound(val)

\* i as usize: a non-negative i32 keeps its value, a negative one is sign
\* extended to the width of usize.  The value is low plus, when high, all
\* the bits from bit 31 up to the top bit of usize (whatever the target's
\* pointer width): -1 becomes usize::MAX.
as_usize(i) ==
    IF i >= 0 THEN [low |-> i, high |-> FALSE]
    ELSE [low |-> (i + MaxI32) + 1, high |-> TRUE]

\* values, then labels, then indices, each mapped into its Opt variant
\* (Opt::Value, Opt::Label, |i| Opt::Index(i as usize))
Tagged(tag, o) ==
    IF o = None THEN <<>>
    ELSE [i \in 1..Len(CHOOSE x \in o : TRUE) |->
            <<tag, IF tag = "Index"
                   THEN as_usize((CHOOSE x \in o : TRUE)[i])
                   ELSE (CHOOSE x \in o : TRUE)[i]>>]

\* The argument struct an operation builds for the frame or the element from
\* the caller's: the fields it copies.  fill copies timeout and no_wait_after
\* only; select_option builds the options list (Some only when not empty) and
\* copies timeout and no_wait_after.
frame_args(op, args) ==
    CASE op \in {"click", "dblclick"} ->
            [modifiers |-> args.modifiers, position |-> args.position,
             delay |-> args.delay, button |-> args.button,
             click_count |-> args.click_count, timeout |-> args.timeout,
             force |-> args.force, no_wait_after |-> args.no_wait_after]
      [] op = "fill" ->
            [timeout |-> args.timeout, no_wait_after |-> args.no_wait_after]
      [] op = "hover" ->
            [position |-> args.position, modifiers |-> args.modifiers,
             force |-> args.force, timeout |-> args.timeout]
      [] op \in {"check", "uncheck"} ->
            [position |-> args.position, force |-> args.force,
             no_wait_after |-> args.no_wait_after, timeout |-> args.timeout]
      [] op \in {"press", "type"} ->
            [delay |-> args.delay, timeout |-> args.timeout,
             no_wait_after |-> args.no_wait_after]
      [] op = "select_option" ->
            [options |->
                IF Tagged("Value", args.values) \o Tagged("Label", args.labels)
                   \o Tagged("Index", args.indices) = <<>>
                THEN None
                ELSE Some(Tagged("Value", args.values)
                          \o Tagged("Label", args.labels)
                          \o Tagged("Index", args.indices)),
             timeout |-> args.timeout,
             no_wait_after |-> args.no_wait_after]

click(l, args, env, val) ==
    FrameOp("click", l, "", frame_args("click", args), env, val)

dblclick(l, args, env, val) ==
    FrameOp("dblclick", l, "", frame_args("dblclick", args), env, val)

\* "Regular selector handling"
FillRegular(l, v, args, env, val) ==
    FramePrimitive("fill", l.selector, v, frame_args("fill", args), env, val)

\* elements.get(index), upgrade, element.fill
FillIndexed(q, index, l, v, args, env, val) ==
    IF ~q.ok THEN Out(Err(q.err), <<q.call>>, val)
    ELSE IF index >= Len(q.els)
    THEN Out(Err("ObjectNotFound"), <<q.call>>, val)
    ELSE IF Upgrades(q.els[index + 1], env)
    THEN After(<<q.call>>,
               ElementPrimitive("fill", q.els[index + 1], v, frame_args("fill", args),
                                env, val))
    ELSE After(<<q.call>>, FillRegular(l, v, args, env, val))

FillMarked(m, l, v, args, env, val) ==
    IF m.marker
    THEN FillIndexed(QuerySelectorAll(m.base_selector, env), m.index, l, v,
                     args, env, val)
    ELSE FillRegular(l, v, args, env, val)

fill(l, v, args, env, val) ==
    IF FrameUpgrades
    THEN FillMarked(ParseMarker(l.selector), l, v, args, env, val)
    ELSE NotFound(val)

hover(l, args, env, val) ==
    FrameOp("hover", l, "", frame_args("hover", args), env, val)

check(l, args, env, val) ==
    FrameOp("check", l, "", frame_args("check", args), env, val)

uncheck(l, args, env, val) ==
    FrameOp("uncheck", l, "", frame_args("uncheck", args), env, val)

\* A key operation that skips the upgrade of the handle it was given
KeyOnDeadHandle(q, fn, key, args, env, val) ==
    IF ~q.ok THEN Out(Err(q.err), <<q.call>>, val)
    ELSE IF q.els = <<>> THEN Out(Err("ObjectNotFound"), <<q.call>>, val)
    ELSE After(<<q.call>>,
               ElementPrimitive(fn, q.els[1], key, frame_args(fn, args), env, val))

\* press and type: query_selector, upgrade, then the element primitive
KeyOn(q, fn, key, args, env, val) ==
    IF ~q.ok THEN Out(Err(q.err), <<q.call>>, val)
    ELSE IF q.els = <<>> THEN Out(Err("ObjectNotFound"), <<q.call>>, val)
    ELSE IF ~Upgrades(q.els[1], env)
    THEN Out(Err("ObjectNotFound"), <<q.call>>, val)
    ELSE After(<<q.call>>,
               ElementPrimitive(fn, q.els[1], key, frame_args(fn, args), env, val))

KeyOp(fn, l, key, args, env, val) ==
    IF FrameUpgrades
    THEN KeyOn(QuerySelector(l.selector, env), fn, key, args, env, val)
    ELSE NotFound(val)

press(l, key, args, env, val) == KeyOp("press", l, key, args, env, val)

type(l, text, args, env, val) == KeyOp("type", l, text, args, env, val)

\* elements.get(index), upgrade, element.set_input_files; otherwise
\* ObjectNotFound
FilesIndexed(q, index, args, env, val) ==
    IF ~q.ok THEN Out(Err(q.err), <<q.call>>, val)
    ELSE IF index < Len(q.els) /\ Upgrades(q.els[index + 1], env)
    THEN After(<<q.call>>,
               ElementPrimitive("set_input_files", q.els[index + 1], "", args,
                                env, val))
    ELSE Out(Err("ObjectNotFound"), <<q.call>>, val)

FilesMarked(m, l, args, env, val) ==
    IF m.marker
    THEN FilesIndexed(QuerySelectorAll(m.base_selector, env), m.index, args,
                      env, val)
    ELSE FramePrimitive("set_input_files", l.selector, "",
                        [files |-> args.files, timeout |-> args.timeout,
                         no_wait_after |-> args.no_wait_after], env, val)

set_input_files(l, args, env, val) ==
    IF FrameUpgrades
    THEN FilesMarked(ParseMarker(l.selector), l, args, env, val)
    ELSE NotFound(val)

focus(l, timeout, env, val) ==
    FrameOp("focus", l, "", [timeout |-> timeout], env, val)

\* let _ = send_message!(self, method, args); Ok(())
Discard(sent) ==
    IF IsOk(sent.res) THEN Out(Unit, sent.calls, sent.value) ELSE sent

blur(l, timeout, env, val) ==
    Discard(SendMessage(l, "blur", -1, [timeout |-> timeout], env, val))

\* A clear that would forward fill's options without the timeout
clear_without_timeout(l, args, env, val) ==
    IF l.channel # None
    THEN Discard(SendMessage(l, "clear", -1,
                             [force |-> args.force,
                              no_wait_after |-> args.no_wait_after,
                              timeout |-> args.timeout], env, val))
    ELSE fill(l, "",
              [force |-> args.force, no_wait_after |-> args.no_wait_after,
               timeout |-> None], env, val)

clear(l, args, env, val) ==
    IF l.channel # None
    THEN Discard(SendMessage(l, "clear", -1,
                             [force |-> args.force,
                              no_wait_after |-> args.no_wait_after,
                              timeout |-> args.timeout], env, val))
    ELSE fill(l, "",
              [force |-> args.force, no_wait_after |-> args.no_wait_after,
               timeout |-> args.timeout], env, val)

select_option(l, args, env, val) ==
    FrameOp("select_option", l, "", frame_args("select_option", args), env,
            val)

\* contains("|") || contains("ancestor::") || contains("descendant::") ||
\* contains("following::") || contains("preceding::")
is_complex_xpath(sel) ==
    \/ Contains(sel, <<"|">>)
    \/ Contains(sel, Tokens.ancestor)
    \/ Contains(sel, <<"d", "e", "s", "c", "e", "n", "d", "a", "n", "t", ":", ":">>)
    \/ Contains(sel, <<"f", "o", "l", "l", "o", "w", "i", "n", "g", ":", ":">>)
    \/ Contains(sel, <<"p", "r", "e", "c", "e", "d", "i", "n", "g", ":", ":">>)

\* A handler that would swallow the evaluation failure without the native call
XPathEvaluatedWithoutFallback(ev, l, env, val) ==
    IF IsOk(ev.res) THEN Out(ev.res, <<ev.call>>, val)
    ELSE Out(Ok("none", 0, ""), <<ev.call>>, val)

\* match frame.evaluate(js_code): Ok => the script's value;
\* Err => frame.text_content(&self.selector, None)
XPathEvaluated(ev, l, env, val) ==
    IF IsOk(ev.res) THEN Out(ev.res, <<ev.call>>, val)
    ELSE After(<<ev.call>>,
               FramePrimitive("text_content", l.selector, "",
                              [timeout |-> None], env \ {"eval"}, val))

\* xpath_expr = &self.selector[6..], quotes escaped into the script
handle_complex_xpath_text_content(l, timeout, env, val) ==
    XPathEvaluated(Evaluate("xpath_text", EscapeQuotes(SliceFrom(l.selector, 6)),
                            -1, env, val),
                   l, env, val)

\* elements.get(index), upgrade, element.text_content(); otherwise Ok(None)
TextIndexed(q, index, env, val) ==
    IF ~q.ok THEN Out(Err(q.err), <<q.call>>, val)
    ELSE IF index < Len(q.els) /\ Upgrades(q.els[index + 1], env)
    THEN After(<<q.call>>,
               ElementPrimitive("text_content", q.els[index + 1], "", NoOpts,
                                env, val))
    ELSE Out(Ok("none", 0, ""), <<q.call>>, val)

\* The ":nth-of-type(" scan of text_content:
\*   base_selector = &selector[..nth_pos], nth_part = &selector[nth_pos + 13..],
\*   index_str = &nth_part[..close_paren], parse::<usize>()
\* css_index.saturating_sub(1): one less, 0 for 0
NthIndexed(base_selector, css_index) ==
    [nth |-> css_index.ok,
     base_selector |-> base_selector,
     array_index |->
         IF css_index.big # <<>> THEN MaxI32
         ELSE IF css_index.val >= 1 THEN css_index.val - 1
         ELSE 0,
     big |->
         IF css_index.big = <<>>
            \/ css_index.big
                  = <<"2", "1", "4", "7", "4", "8", "3", "6", "4", "8">>
         THEN <<>>
         ELSE Pred(css_index.big,
                   CHOOSE k \in 1..Len(css_index.big) :
                      /\ css_index.big[k] # "0"
                      /\ \A j \in (k + 1)..Len(css_index.big) :
                            css_index.big[j] = "0")]

NthPartClosed(base_selector, nth_part, close_paren) ==
    IF close_paren < 0
    THEN [nth |-> FALSE, base_selector |-> base_selector, array_index |-> 0,
          big |-> <<>>]
    ELSE NthIndexed(base_selector,
                    ParseUsize(Slice(nth_part, 0, close_paren)))

NthAt(sel, nth_pos) ==
    IF nth_pos < 0
    THEN [nth |-> FALSE, base_selector |-> <<>>, array_index |-> 0,
          big |-> <<>>]
    ELSE NthPartClosed(Slice(sel, 0, nth_pos), SliceFrom(sel, nth_pos + 13),
                       Find(SliceFrom(sel, nth_pos + 13), <<")">>))

ParseNthOfType(sel) == NthAt(sel, Find(sel, Tokens.nth_of_type))

TextNth(n, l, timeout, env, val) ==
    IF n.nth
    THEN TextIndexed(QuerySelectorAll(n.base_selector, env), n.array_index,
                     env, val)
    ELSE FramePrimitive("text_content", l.selector, "",
                        [timeout |-> timeout], env, val)

TextMarked(m, l, timeout, env, val) ==
    IF m.marker
    THEN TextIndexed(QuerySelectorAll(m.base_selector, env), m.index, env, val)
    ELSE TextNth(ParseNthOfType(l.selector), l, timeout, env, val)

text_content(l, timeout, env, val) ==
    IF ~FrameUpgrades THEN NotFound(val)
    ELSE IF StartsWith(l.selector, Tokens.xpath) /\ is_complex_xpath(l.selector)
    THEN handle_complex_xpath_text_content(l, timeout, env, val)
    ELSE TextMarked(ParseMarker(l.selector), l, timeout, env, val)

inner_text(l, timeout, env, val) ==
    FrameOp("inner_text", l, "", [timeout |-> timeout], env, val)

inner_html(l, timeout, env, val) ==
    FrameOp("inner_html", l, "", [timeout |-> timeout], env, val)

AttributeRegular(l, name, timeout, env, val) ==
    FramePrimitive("get_attribute", l.selector, name, [timeout |-> timeout],
                   env, val)

\* A resolution that would read the first element when the index is out of range
AttributeIndexedClamped(q, index, l, name, timeout, env, val) ==
    IF ~q.ok THEN Out(Err(q.err), <<q.call>>, val)
    ELSE IF q.els = <<>> THEN Out(Ok("none", 0, ""), <<q.call>>, val)
    ELSE After(<<q.call>>,
               ElementPrimitive("get_attribute",
                                q.els[IF index < Len(q.els) THEN index + 1
                                      ELSE 1],
                                name, NoOpts, env, val))

\* elements.get(index): Some and upgraded => element.get_attribute(name);
\* None => Ok(None); Some but not upgraded => the regular handling
AttributeIndexed(q, index, l, name, timeout, env, val) ==
    IF ~q.ok THEN Out(Err(q.err), <<q.call>>, val)
    ELSE IF index >= Len(q.els) THEN Out(Ok("none", 0, ""), <<q.call>>, val)
    ELSE IF Upgrades(q.els[index + 1], env)
    THEN After(<<q.call>>,
               ElementPrimitive("get_attribute", q.els[index + 1], name,
                                NoOpts, env, val))
    ELSE After(<<q.call>>, AttributeRegular(l, name, timeout, env, val))

AttributeMarked(m, l, name, timeout, env, val) ==
    IF m.marker
    THEN AttributeIndexed(QuerySelectorAll(m.base_selector, env), m.index, l,
                          name, timeout, env, val)
    ELSE AttributeRegular(l, name, timeout, env, val)

get_attribute(l, name, timeout, env, val) ==
    IF FrameUpgrades
    THEN AttributeMarked(ParseMarker(l.selector), l, name, timeout, env, val)
    ELSE NotFound(val)

Evaluated(ev, val) == Out(ev.res, <<ev.call>>, val)

ValueMarked(m, l, env, val) ==
    IF m.marker
    \* the script holds the index as parsed
    THEN Evaluated([Evaluate("value_nth", EscapeQuotes(m.base_selector),
                             m.index, env, val)
                      EXCEPT !.call.idx = IF m.big = <<>> THEN @ ELSE m.big],
                   val)
    ELSE Evaluated(Evaluate("value", EscapeQuotes(l.selector), -1, env, val),
                   val)

input_value(l, timeout, env, val) ==
    IF FrameUpgrades THEN ValueMarked(ParseMarker(l.selector), l, env, val)
    ELSE SendMessage(l, "inputValue", -1, [timeout |-> timeout], env, val)

\* Ok(elements.len())
Counted(q, val) ==
    IF q.ok THEN Out(Ok("usize", Len(q.els), ""), <<q.call>>, val)
    ELSE Out(Err(q.err), <<q.call>>, val)

count(l, env, val) ==
    IF l.channel # None THEN SendMessage(l, "count", -1, NoOpts, env, val)
    ELSE IF FrameUpgrades THEN Counted(QuerySelectorAll(l.selector, env), val)
    ELSE NotFound(val)

\* is_visible, is_hidden, is_enabled, is_disabled, is_checked, is_editable
is_state(fn, l, timeout, env, val) ==
    FrameOp(fn, l, "", [timeout |-> timeout], env, val)

(***************************************************************************)
(* Chaining.  first, last, filter and nth on a registry-backed locator ask *)
(* the peer, which creates the object and names its guid in the reply; the *)
(* connection makes the locator when the object arrives (try_new), the     *)
(* call looks the guid up afterwards (Lookup).  nth on a client-side       *)
(* locator makes the new locator itself, without an .await.                *)
(***************************************************************************)
first(l, env, val) == SendMessage(l, "first", -1, NoOpts, env, val)

last_(l, env, val) == SendMessage(l, "last", -1, NoOpts, env, val)

filter(l, options, env, val) ==
    SendMessage(l, "filter", -1, options, env, val)

\* Locator::try_new(ctx, channel) for the object of a chaining request:
\* get_object!(ctx, &guid, Frame)? finds the frame the initializer names in
\* the registry, or fails and no locator is made.  The frame is the one the
\* parent was created on.
try_new(guid, call, frame) ==
    IF frameLive
    THEN <<[channel |-> Some(guid),
            selector |-> PeerSelector(call.sel, call.arg, call.idx),
            frame |-> frame]>>
    ELSE <<>>

\* format!("({})>>>nth-index-{}", self.selector, index)
MarkerSelector(sel, index) ==
    <<"(">> \o sel \o Tokens.marker \o FormatInt(index)

\* format!("{}:nth-of-type({})", self.selector, index + 1)
\* index + 1 is an i32 addition: at i32::MAX a build without overflow checks
\* wraps to i32::MIN (a build with them panics before formatting, see nth)
NthOfTypeSelector(sel, index) ==
    sel \o Tokens.nth_of_type
        \o FormatInt(IF index = MaxI32 THEN 0 - MaxI32 - 1 ELSE index + 1)
        \o <<")">>

NthSelector(sel, index) ==
    IF Contains(sel, <<",">>) THEN MarkerSelector(sel, index)
    ELSE NthOfTypeSelector(sel, index)

\* Locator::new_client_side(frame, selector); a Weak<Frame> is the id of the
\* frame it points to
new_client_side(frame, selector) ==
    [channel |-> None, selector |-> selector, frame |-> frame]

\* An nth whose new locator holds Weak::new() in place of the parent's frame
nth_with_fresh_frame(l, index, env, val) ==
    [out |-> Out(Ok("locator", Len(locators) + 1, ""), <<>>, val),
     made |-> TRUE,
     new |-> new_client_side(0, NthSelector(l.selector, index))]

\* out is the outcome, made and new the locator made before the call returns
nth(l, index, env, val) ==
    IF l.channel # None
    THEN [out |-> SendMessage(l, "nth", index, [index |-> index], env, val),
          made |-> FALSE, new |-> l]
    ELSE IF "checked" \in env /\ index = MaxI32 /\ ~Contains(l.selector, <<",">>)
    THEN [out |-> Out(Panic, <<>>, val), made |-> FALSE, new |-> l]
    ELSE [out |-> Out(Ok("locator", Len(locators) + 1, ""), <<>>, val),
          made |-> TRUE,
          new |-> new_client_side(l.frame, NthSelector(l.selector, index))]

\* api::Locator: upgrade(&self.inner)?.op(...).await
\*                   .map_err(|_| Error::ObjectNotFound)
Public(res) == IF res.kind = "err" THEN Err("ObjectNotFound") ELSE res

(***************************************************************************)
(* The callers: locators obtained from a frame (client-synthesized) or     *)
(* from the registry (with a channel), the arguments they pass, and the    *)
(* faults of each call.                                                    *)
(***************************************************************************)
MaxLocators == 2

BaseLocators ==
    {new_client_side(1, Selectors.simple),
     new_client_side(1, Selectors.compound),
     new_client_side(1, Selectors.pseudo),
     new_client_side(1, Selectors.ancestor),
     new_client_side(1, Selectors.bare), new_client_side(1, Selectors.nested),
     [channel |-> Some(1), selector |-> Selectors.simple, frame |-> 1]}

\* What the callers pass: the argument structs of the builders (all defaults,
\* and every field set), index: i32 of nth, timeout: Option<f64> of the
\* direct operations, and the state predicate called
Args ==
    [index |-> {-1, 0, 1, 7, MaxI32},
     timeout |-> {None, Some(30)},
     state |-> {"is_visible", "is_hidden", "is_enabled", "is_disabled",
                "is_checked", "is_editable"},
     \* The argument structs a builder can hold: every field is None
     \* (Default) or what its setter stored, field by field
     click |->
        {[modifiers |-> m, position |-> p, delay |-> d, button |-> b,
          click_count |-> c, timeout |-> t, force |-> f,
          no_wait_after |-> n] :
            m \in {None, Some("Shift")}, p \in {None, Some(<<1, 2>>)},
            d \in {None, Some(5)}, b \in {None, Some("right")},
            c \in {None, Some(2)}, t \in {None, Some(30)},
            f \in {None, Some(TRUE)}, n \in {None, Some(TRUE)}},
     fill |->
        {[force |-> f, no_wait_after |-> n, timeout |-> t] :
            f \in {None, Some(TRUE)}, n \in {None, Some(TRUE)},
            t \in {None, Some(30)}},
     hover |->
        {[position |-> p, modifiers |-> m, force |-> f, timeout |-> t] :
            p \in {None, Some(<<1, 2>>)}, m \in {None, Some("Shift")},
            f \in {None, Some(TRUE)}, t \in {None, Some(30)}},
     check |->
        {[position |-> p, force |-> f, no_wait_after |-> n, timeout |-> t] :
            p \in {None, Some(<<1, 2>>)}, f \in {None, Some(TRUE)},
            n \in {None, Some(TRUE)}, t \in {None, Some(30)}},
     key |->
        {[delay |-> d, timeout |-> t, no_wait_after |-> n] :
            d \in {None, Some(5)}, t \in {None, Some(30)},
            n \in {None, Some(TRUE)}},
     \* files is the constructor's file until files() replaces the list
     files |->
        {[files |-> fs, timeout |-> t, no_wait_after |-> n] :
            fs \in {<<"f">>, <<"g", "h">>}, t \in {None, Some(30)},
            n \in {None, Some(TRUE)}},
     select |->
        {[values |-> v, labels |-> l, indices |-> i, force |-> f,
          no_wait_after |-> n, timeout |-> t] :
            v \in {None, Some(<<"v">>)}, l \in {None, Some(<<"l">>)},
            i \in {None, Some(<<0, -1>>)}, f \in {None, Some(TRUE)},
            n \in {None, Some(TRUE)}, t \in {None, Some(30)}},
     filter |->
        {[has_text |-> ht, has_not_text |-> hnt, has |-> h, has_not |-> hn] :
            ht \in {None, Some("t")}, hnt \in {None, Some("u")},
            h \in {None, Some("b")}, hn \in {None, Some("i")}}]

\* The builders of api::Locator: the argument struct each one holds and the
\* value its constructor takes (fill_builder(value), press_builder(key),
\* type_builder(text))
Builders ==
    [click |-> [args |-> Args.click, arg |-> ""],
     dblclick |-> [args |-> Args.click, arg |-> ""],
     fill |-> [args |-> Args.fill, arg |-> "y"],
     hover |-> [args |-> Args.hover, arg |-> ""],
     check |-> [args |-> Args.check, arg |-> ""],
     uncheck |-> [args |-> Args.check, arg |-> ""],
     press |-> [args |-> Args.key, arg |-> "Enter"],
     type |-> [args |-> Args.key, arg |-> "abc"],
     set_input_files |-> [args |-> Args.files, arg |-> ""],
     clear |-> [args |-> Args.fill, arg |-> ""],
     select_option |-> [args |-> Args.select, arg |-> ""],
     filter |-> [args |-> Args.filter, arg |-> ""]]

NoFault == {}

\* The faults a call may meet, by what the operation uses
Faults ==
    [prim |-> {NoFault, {"prim"}},
     resolve |-> {NoFault, {"prim"}, {"query"}, {"gone"}},
     text |-> {NoFault, {"prim"}, {"query"}, {"gone"}, {"eval"},
               {"eval", "prim"}},
     value |-> {NoFault, {"eval"}, {"peer"}, {"late"}},
     count |-> {NoFault, {"query"}, {"peer"}, {"late"}},
     peer |-> {NoFault, {"peer"}, {"late"}},
     \* nth also depends on the build: "checked" is a build with overflow
     \* checks (debug), where an overflowing i32 addition panics
     nth |-> {NoFault, {"peer"}, {"late"}, {"checked"}},
     clear |-> {NoFault, {"prim"}, {"query"}, {"gone"}, {"peer"}, {"late"}}]

(***************************************************************************)
(* The state machine.                                                      *)
(***************************************************************************)
Idle ==
    [op |-> "", loc |-> 0, arg |-> "", idx |-> -1, opts |-> NoOpts,
     env |-> NoFault, res |-> Unit, pub |-> Unit, calls |-> <<>>,
     todo |-> <<>>, after |-> <<>>, live |-> TRUE]

Init ==
    /\ \E base \in BaseLocators : locators = <<base>>
    /\ frameLive = TRUE
    \* the page as loaded: editable elements hold "x"
    /\ value = [e \in DOMAIN Doc |-> IF Doc[e].editable THEN "x" ELSE ""]
    /\ nextGuid = 2
    /\ pc = "ready"
    /\ last = Idle
    /\ disposed = {}
    /\ sessionOpen = TRUE
    /\ late = FALSE
    \* no click of the second caller is in flight and none has returned
    /\ flight = [loc |-> 0, opts |-> NoOpts, res |-> Unit, done |-> FALSE,
                 sole |-> FALSE]

\* The record of an operation that was entered: the result it returns (pub
\* is what the api wrapper hands back), the call it made and is suspended
\* at, the calls it makes after that one, the page its calls leave, and
\* whether its Weak<Frame> upgraded
Started(op, loc, arg, idx, opts, env, out) ==
    [op |-> op, loc |-> loc, arg |-> arg, idx |-> idx, opts |-> opts,
     env |-> env, res |-> out.res, pub |-> Public(out.res),
     calls |-> IF out.calls = <<>> THEN <<>> ELSE <<out.calls[1]>>,
     todo |-> IF out.calls = <<>> THEN <<>> ELSE Tail(out.calls),
     after |-> out.value, live |-> FrameUpgrades]

\* A wrapper that went on into the operation without looking at the Weak
upgrade_ignoring_disposal(loc, out, val) == out

\* upgrade(&self.inner)?: the wrapper returns Error::ObjectNotFound before
\* the operation is entered when the locator object is gone
upgrade(loc, out, val) == IF LocatorUpgrades(loc) THEN out ELSE NotFound(val)

\* The wrapper and the operation up to its first .await: the first call is
\* made, nothing has come back
Finish(op, loc, arg, idx, opts, env, out) ==
    /\ last' = Started(op, loc, arg, idx, opts, env,
                       upgrade(loc, out, value))
    \* it waits for the reply to its message, or at the .await of a call on
    \* the frame or an element, or it has returned
    /\ pc' = IF last'.calls = <<>> THEN "returned"
             ELSE IF last'.calls[1].fn = "channel.send" THEN "pending"
             ELSE "suspended"
    /\ UNCHANGED <<locators, frameLive, value, nextGuid, disposed,
                   sessionOpen, late, flight>>

\* x_builder(): the builder takes a clone of the handle's Weak<LocatorImpl>
\* and default arguments; nothing is upgraded, sent or called
Build ==
    /\ pc = "ready"
    /\ \E k \in DOMAIN Builders, i \in DOMAIN locators :
       \E args \in Builders[k].args :
          /\ \A f \in DOMAIN args \ {"files"} : args[f] = None
          \* set_input_files_builder(file): vec![file]
          /\ "files" \in DOMAIN args => args.files = <<"f">>
          /\ k = "filter" => Len(locators) < MaxLocators
          /\ last' = [Idle EXCEPT !.op = k, !.loc = i,
                                  !.arg = Builders[k].arg, !.opts = args]
    /\ pc' = "building"
    /\ UNCHANGED <<locators, frameLive, value, nextGuid, disposed, sessionOpen,
                   late, flight>>

\* The setter calls the caller makes on one builder
MaxSetters == 2

\* A setter of a builder (setter! and files / values / labels / indices):
\* it stores its argument in one field of the builder's argument struct and
\* leaves the others
SetOptions ==
    /\ pc = "building"
    /\ Cardinality({g \in DOMAIN last.opts :
                       IF g = "files" THEN last.opts[g] # <<"f">>
                       ELSE last.opts[g] # None}) < MaxSetters
    /\ \E args \in Builders[last.op].args, f \in DOMAIN last.opts :
          /\ args[f] # last.opts[f]
          /\ IF f = "files" THEN args[f] = <<"g", "h">> ELSE args[f] # None
          /\ \A g \in DOMAIN last.opts \ {f} : args[g] = last.opts[g]
          /\ last' = [last EXCEPT !.opts = args]
    /\ UNCHANGED <<locators, frameLive, value, nextGuid, pc, disposed,
                   sessionOpen, late, flight>>

Click ==
    /\ pc = "building"
    /\ last.op = "click"
    /\ \E env \in Faults.prim :
          Finish("click", last.loc, last.arg, -1, last.opts, env,
                 click(locators[last.loc], last.opts, env, value))

DblClick ==
    /\ pc = "building"
    /\ last.op = "dblclick"
    /\ \E env \in Faults.prim :
          Finish("dblclick", last.loc, last.arg, -1, last.opts, env,
                 dblclick(locators[last.loc], last.opts, env, value))

Fill ==
    /\ pc = "building"
    /\ last.op = "fill"
    /\ \E env \in Faults.resolve :
          Finish("fill", last.loc, last.arg, -1, last.opts, env,
                 fill(locators[last.loc], last.arg, last.opts, env, value))

Hover ==
    /\ pc = "building"
    /\ last.op = "hover"
    /\ \E env \in Faults.prim :
          Finish("hover", last.loc, last.arg, -1, last.opts, env,
                 hover(locators[last.loc], last.opts, env, value))

Check ==
    /\ pc = "building"
    /\ last.op = "check"
    /\ \E env \in Faults.prim :
          Finish("check", last.loc, last.arg, -1, last.opts, env,
                 check(locators[last.loc], last.opts, env, value))

Uncheck ==
    /\ pc = "building"
    /\ last.op = "uncheck"
    /\ \E env \in Faults.prim :
          Finish("uncheck", last.loc, last.arg, -1, last.opts, env,
                 uncheck(locators[last.loc], last.opts, env, value))

Press ==
    /\ pc = "building"
    /\ last.op = "press"
    /\ \E env \in Faults.resolve :
          Finish("press", last.loc, last.arg, -1, last.opts, env,
                 press(locators[last.loc], last.arg, last.opts, env, value))

Type ==
    /\ pc = "building"
    /\ last.op = "type"
    /\ \E env \in Faults.resolve :
          Finish("type", last.loc, last.arg, -1, last.opts, env,
                 type(locators[last.loc], last.arg, last.opts, env, value))

SetInputFiles ==
    /\ pc = "building"
    /\ last.op = "set_input_files"
    /\ \E env \in Faults.resolve :
          Finish("set_input_files", last.loc, last.arg, -1, last.opts, env,
                 set_input_files(locators[last.loc], last.opts, env, value))

Focus ==
    /\ pc = "ready"
    /\ \E i \in DOMAIN locators, timeout \in Args.timeout, env \in Faults.prim :
          Finish("focus", i, "", -1, [timeout |-> timeout], env,
                 focus(locators[i], timeout, env, value))

Blur ==
    /\ pc = "ready"
    /\ \E i \in DOMAIN locators, timeout \in Args.timeout, env \in Faults.peer :
          Finish("blur", i, "", -1, [timeout |-> timeout], env,
                 blur(locators[i], timeout, env, value))

Clear ==
    /\ pc = "building"
    /\ last.op = "clear"
    /\ \E env \in Faults.clear :
          Finish("clear", last.loc, last.arg, -1, last.opts, env,
                 clear(locators[last.loc], last.opts, env, value))

SelectOption ==
    /\ pc = "building"
    /\ last.op = "select_option"
    /\ \E env \in Faults.prim :
          Finish("select_option", last.loc, last.arg, -1, last.opts, env,
                 select_option(locators[last.loc], last.opts, env, value))

TextContent ==
    /\ pc = "ready"
    /\ \E i \in DOMAIN locators, timeout \in Args.timeout, env \in Faults.text :
          Finish("text_content", i, "", -1, [timeout |-> timeout], env,
                 text_content(locators[i], timeout, env, value))

InnerText ==
    /\ pc = "ready"
    /\ \E i \in DOMAIN locators, timeout \in Args.timeout, env \in Faults.prim :
          Finish("inner_text", i, "", -1, [timeout |-> timeout], env,
                 inner_text(locators[i], timeout, env, value))

InnerHtml ==
    /\ pc = "ready"
    /\ \E i \in DOMAIN locators, timeout \in Args.timeout, env \in Faults.prim :
          Finish("inner_html", i, "", -1, [timeout |-> timeout], env,
                 inner_html(locators[i], timeout, env, value))

GetAttribute ==
    /\ pc = "ready"
    /\ \E i \in DOMAIN locators, timeout \in Args.timeout, env \in Faults.resolve :
          Finish("get_attribute", i, "href", -1, [timeout |-> timeout], env,
                 get_attribute(locators[i], "href", timeout, env, value))

InputValue ==
    /\ pc = "ready"
    /\ \E i \in DOMAIN locators, timeout \in Args.timeout, env \in Faults.value :
          Finish("input_value", i, "", -1, [timeout |-> timeout], env,
                 input_value(locators[i], timeout, env, value))

Count ==
    /\ pc = "ready"
    /\ \E i \in DOMAIN locators, env \in Faults.count :
          Finish("count", i, "", -1, NoOpts, env,
                 count(locators[i], env, value))

IsState ==
    /\ pc = "ready"
    /\ \E fn \in Args.state, i \in DOMAIN locators, timeout \in Args.timeout,
          env \in Faults.prim :
          Finish(fn, i, "", -1, [timeout |-> timeout], env,
                 is_state(fn, locators[i], timeout, env, value))

\* selector(): upgrade, then a copy of the locator's selector string (the
\* text is that of locators[last.loc]); no delegate, no message
Selector ==
    /\ pc = "ready"
    /\ \E i \in DOMAIN locators :
          Finish("selector", i, "", -1, NoOpts, NoFault,
                 Out([Ok("selector", 0, "") EXCEPT
                         !.text = locators[i].selector], <<>>, value))

First ==
    /\ pc = "ready"
    /\ Len(locators) < MaxLocators
    /\ \E i \in DOMAIN locators, env \in Faults.peer :
          Finish("first", i, "", -1, NoOpts, env,
                 first(locators[i], env, value))

Last ==
    /\ pc = "ready"
    /\ Len(locators) < MaxLocators
    /\ \E i \in DOMAIN locators, env \in Faults.peer :
          Finish("last", i, "", -1, NoOpts, env,
                 last_(locators[i], env, value))

Nth ==
    /\ pc = "ready"
    /\ Len(locators) < MaxLocators
    /\ \E i \in DOMAIN locators, index \in Args.index, env \in Faults.nth :
          /\ last' = Started("nth", i, "", index, [index |-> index], env,
                             upgrade(i, nth(locators[i], index, env,
                                            value).out, value))
          \* the locator a client-side nth makes before it returns
          /\ locators' = IF nth(locators[i], index, env, value).made
                            /\ IsOk(last'.res)
                         THEN Append(locators,
                                     nth(locators[i], index, env, value).new)
                         ELSE locators
    \* it waits for the reply to its message, or at the .await of a call on
    \* the frame or an element, or it has returned
    /\ pc' = IF last'.calls = <<>> THEN "returned"
             ELSE IF last'.calls[1].fn = "channel.send" THEN "pending"
             ELSE "suspended"
    /\ UNCHANGED <<frameLive, value, nextGuid, disposed, sessionOpen, late,
                   flight>>

Filter ==
    /\ pc = "building"
    /\ last.op = "filter"
    /\ Len(locators) < MaxLocators
    /\ \E env \in Faults.peer :
          Finish("filter", last.loc, "", -1, last.opts, env,
                 filter(locators[last.loc], last.opts, env, value))

\* The frame is torn down (navigation, page close): the registry drops its
\* Arc<Frame>.  A call that upgraded the Weak<Frame> before and is suspended
\* at an .await holds an Arc of its own until it is over (FrameUpgrades).
TearDownFrame ==
    /\ pc \in {"ready", "building", "pending", "suspended", "lookup"}
    /\ frameLive
    /\ frameLive' = FALSE
    /\ UNCHANGED <<locators, value, nextGuid, pc, last, disposed, sessionOpen,
                   late, flight>>

\* The peer disposes a locator object: the registry drops its Arc, and the
\* Weak<LocatorImpl> of the public handles and builders stops upgrading
\* once no running call holds one (LocatorUpgrades).  The Arc of a
\* client-synthesized locator is leaked (std::mem::forget) and is never
\* dropped.
Dispose ==
    /\ pc \in {"ready", "building", "pending", "suspended", "lookup"}
    /\ \E i \in DOMAIN locators \ disposed :
          /\ locators[i].channel # None
          /\ disposed' = disposed \cup {i}
    /\ UNCHANGED <<locators, frameLive, value, nextGuid, pc, last, sessionOpen,
                   late, flight>>

\* A teardown that would release the leaked client-synthesized locators too
TearDownSessionReleasingAll ==
    /\ pc \in {"ready", "building"}
    /\ sessionOpen
    /\ sessionOpen' = FALSE
    /\ frameLive' = FALSE
    /\ disposed' = DOMAIN locators
    /\ UNCHANGED <<locators, value, nextGuid, pc, last, late, flight>>

\* The session ends: the connection closes and the registry drops every
\* object it owns, the frame and the registry-backed locators.  The Arc of a
\* client-synthesized locator was leaked by std::mem::forget, is owned by no
\* registry and is not dropped.
TearDownSession ==
    /\ pc \in {"ready", "building"}
    /\ sessionOpen
    /\ sessionOpen' = FALSE
    /\ frameLive' = FALSE
    /\ disposed' = {i \in DOMAIN locators : locators[i].channel # None}
    /\ UNCHANGED <<locators, value, nextGuid, pc, last, late, flight>>

\* The reply to the operation's message arrives, the channel fails or the
\* timeout of the message expires (last.env says which; the result is in
\* last): the pending call is over and what the peer did is on the page.  A
\* reply that names a guid came after the object of that guid: the
\* connection made the locator for it (try_new) if it could, and the call
\* goes on to look the guid up.  A message without a timeout whose reply
\* does not come stays pending.
Settle ==
    /\ pc = "pending"
    /\ last.res # NoReply
    /\ value' = Written(last.calls[1], value)
    /\ pc' = IF IsOk(last.res) /\ last.res.tag = "guid"
             THEN "lookup" ELSE "returned"
    /\ locators' = IF IsOk(last.res) /\ last.res.tag = "guid"
                   THEN locators \o try_new(last.res.n, last.calls[1],
                                            locators[last.loc].frame)
                   ELSE locators
    \* the peer's next guid, counted in the objects the registry took
    /\ nextGuid' = IF Len(locators') > Len(locators)
                   THEN nextGuid + 1 ELSE nextGuid
    /\ late' = (late \/ "late" \in last.env)
    /\ UNCHANGED <<frameLive, last, disposed, sessionOpen, flight>>

\* The call on the frame or the element the operation is suspended at is
\* over (.await) and what it did is on the page: the operation makes its
\* next call, or returns the result when it has none left
Resume ==
    /\ pc = "suspended"
    /\ value' = Written(last.calls[Len(last.calls)], value)
    /\ last' = IF last.todo = <<>> THEN last
               ELSE [last EXCEPT !.calls = Append(@, Head(last.todo)),
                                 !.todo = Tail(@)]
    /\ pc' = IF last.todo = <<>> THEN "returned" ELSE "suspended"
    /\ UNCHANGED <<locators, frameLive, nextGuid, disposed, sessionOpen,
                   late, flight>>

\* The reply to a call that is over arrives: its correlation entry is gone,
\* so it is dropped
LateReply ==
    /\ late
    /\ late' = FALSE
    /\ UNCHANGED <<locators, frameLive, value, nextGuid, pc, last, disposed,
                   sessionOpen, flight>>

\* A registry that still hands out an entry after its unregister
get_object_after_unregister(guid) ==
    {i \in DOMAIN locators : locators[i].channel = Some(guid)}

\* get_object!(self.context()?.lock().unwrap(), guid, Locator): the entry
\* registered under the guid, read under the registry's lock; None once the
\* peer's disposal has unregistered it
get_object(guid) ==
    {i \in DOMAIN locators \ disposed : locators[i].channel = Some(guid)}

\* The chaining call resumes after the reply and looks the guid up; a
\* missing entry is Error::ObjectNotFound
Lookup ==
    /\ pc = "lookup"
    /\ pc' = "returned"
    /\ last' = IF get_object(last.res.n) = None
               THEN [last EXCEPT !.res = Err("ObjectNotFound"),
                                 !.pub = Err("ObjectNotFound")]
               ELSE [last EXCEPT
                        !.res = Ok("locator",
                                   CHOOSE i \in get_object(last.res.n) : TRUE,
                                   ""),
                        !.pub = Ok("locator",
                                   CHOOSE i \in get_object(last.res.n) : TRUE,
                                   "")]
    /\ UNCHANGED <<locators, frameLive, value, nextGuid, disposed, sessionOpen,
                   late, flight>>

\* impl PartialEq for api::Locator: both handles are upgraded; when either
\* locator is gone the answer is false (unwrap_or_default), otherwise the
\* guids are compared.  guid() is a provided method of RemoteObject and gets
\* at the guid through channel(), which panics (expect) on a locator without
\* a channel; a is asked first.
eq(a, b) ==
    IF ~LocatorUpgrades(a) \/ ~LocatorUpgrades(b) THEN Ok("bool", 0, "")
    ELSE IF locators[a].channel = None \/ locators[b].channel = None
    THEN Panic
    ELSE Ok("bool", IF locators[a].channel = locators[b].channel
                    THEN 1 ELSE 0, "")

\* The caller compares two handles (a handle with itself or its clone when
\* both name the same locator)
Eq ==
    /\ pc = "ready"
    /\ \E a \in DOMAIN locators, b \in DOMAIN locators :
          last' = [Idle EXCEPT !.op = "eq", !.loc = a, !.idx = b,
                               !.res = eq(a, b), !.pub = eq(a, b)]
    /\ pc' = "returned"
    /\ UNCHANGED <<locators, frameLive, value, nextGuid, disposed, sessionOpen,
                   late, flight>>

\* The caller takes the result.  A reply still outstanding then is followed
\* no further: it is dropped whenever it arrives, and nothing waits for it.
Return ==
    /\ pc = "returned"
    /\ pc' = "ready"
    /\ last' = Idle
    /\ late' = FALSE
    /\ UNCHANGED <<locators, frameLive, value, nextGuid, disposed, sessionOpen,
                   flight>>

\* The caller drops the future of an operation that is suspended at an
\* .await, on the frame, an element, the channel or the registry's lock: the
\* operation is over without a result and makes no further call.  The call
\* it was suspended at had been made: what it does to the page may still
\* happen, and the reply to a message finds no waiter when it comes.
Abandon ==
    /\ pc \in {"pending", "suspended", "lookup"}
    /\ pc' = "ready"
    /\ last' = Idle
    /\ late' = (late \/ (pc = "pending" /\ last.res # NoReply))
    /\ value' \in {value, Written(last.calls[Len(last.calls)], value)}
    /\ UNCHANGED <<locators, frameLive, nextGuid, disposed, sessionOpen,
                   flight>>

Next ==
    \/ Build \/ SetOptions \/ Click \/ DblClick \/ Fill \/ Hover \/ Check \/ Uncheck \/ Press
    \/ Type \/ SetInputFiles \/ Focus \/ Blur \/ Clear \/ SelectOption
    \/ TextContent \/ InnerText \/ InnerHtml \/ GetAttribute \/ InputValue
    \/ Count \/ IsState \/ Selector \/ First \/ Last \/ Nth \/ Filter
    \/ TearDownFrame \/ Dispose \/ TearDownSession \/ Settle \/ Resume
    \/ Abandon \/ LateReply \/ Lookup \/ Eq \/ Return

Spec == Init /\ [][Next]_vars

(***************************************************************************)
(* Two callers.  The calls above are those of one caller, one after the    *)
(* other; a second caller awaits a click meanwhile.  click() upgrades the  *)
(* builder's Weak<LocatorImpl> and the locator's Weak<Frame> and holds     *)
(* both Arcs until frame.click(frame_args).await is over; the builder was  *)
(* consumed (self), so the arguments are those it held when click() was    *)
(* called.  Every step of the first caller can come between ClickResolved  *)
(* and ClickCompleted, and the click can end at any point of a call of the *)
(* first caller.                                                           *)
(***************************************************************************)

\* click() of the second caller up to the await: both upgrades succeeded (a
\* click whose upgrade fails returns at once: Click) and frame.click was
\* handed the arguments
ClickResolved ==
    /\ pc = "building"
    /\ last.op = "click"
    /\ flight.loc = 0
    /\ LocatorUpgrades(last.loc)
    /\ FrameUpgrades
    /\ flight' = [loc |-> last.loc, opts |-> last.opts, res |-> Unit,
                  done |-> FALSE, sole |-> FALSE]
    /\ pc' = "ready"
    /\ last' = Idle
    /\ UNCHANGED <<locators, frameLive, value, nextGuid, disposed,
                   sessionOpen, late>>

\* A click that looks its locator and frame up again when the reply is in
ClickCompletedRechecking ==
    /\ flight.loc # 0
    /\ \E env \in Faults.prim :
          /\ flight' =
                [loc |-> 0, opts |-> NoOpts,
                 res |-> IF flight.loc \in disposed \/ ~frameLive
                         THEN Err("ObjectNotFound")
                         ELSE FramePrimitive("click",
                                 locators[flight.loc].selector, "",
                                 frame_args("click", flight.opts), env,
                                 value).res,
                 done |-> TRUE,
                 sole |-> \/ ~(frameLive \/ pc = "suspended")
                          \/ ~(\/ flight.loc \notin disposed
                               \/ /\ pc \in {"pending", "suspended", "lookup"}
                                  /\ last.loc = flight.loc)]
          /\ value' = value
    /\ UNCHANGED <<locators, frameLive, nextGuid, pc, last, disposed,
                   sessionOpen, late>>

\* frame.click(frame_args).await is over: the call returns what the frame
\* returned and drops its two Arcs.  sole: one of them was the last, the
\* frame or the locator is gone once the click has returned: the registry
\* had let go of it and no call of the first caller holds an Arc of it (an
\* operation suspended at a call on the frame or an element holds the
\* Arc<Frame> it upgraded, a call that is pending, suspended or at the lookup
\* the Arc<LocatorImpl> its wrapper upgraded).
ClickCompleted ==
    /\ flight.loc # 0
    /\ \E env \in Faults.prim :
          /\ flight' =
                [loc |-> 0, opts |-> NoOpts,
                 res |-> FramePrimitive("click", locators[flight.loc].selector,
                                        "", frame_args("click", flight.opts),
                                        env, value).res,
                 done |-> TRUE,
                 sole |-> \/ ~(frameLive \/ pc = "suspended")
                          \/ ~(\/ flight.loc \notin disposed
                               \/ /\ pc \in {"pending", "suspended", "lookup"}
                                  /\ last.loc = flight.loc)]
          /\ value' = FramePrimitive("click", locators[flight.loc].selector,
                                     "", frame_args("click", flight.opts),
                                     env, value).value
    /\ UNCHANGED <<locators, frameLive, nextGuid, pc, last, disposed,
                   sessionOpen, late>>

\* Every step of Next, in any order with the two steps of the click
ConcNext ==
    \/ Build \/ SetOptions \/ ClickResolved \/ ClickCompleted
    \/ Click \/ DblClick \/ Fill \/ Hover \/ Check \/ Uncheck \/ Press
    \/ Type \/ SetInputFiles \/ Focus \/ Blur \/ Clear \/ SelectOption
    \/ TextContent \/ InnerText \/ InnerHtml \/ GetAttribute \/ InputValue
    \/ Count \/ IsState \/ Selector \/ First \/ Last \/ Nth \/ Filter
    \/ TearDownFrame \/ Dispose \/ TearDownSession \/ Settle \/ Resume
    \/ Abandon \/ LateReply \/ Lookup \/ Eq \/ Return

ConcSpec == Init /\ [][ConcNext]_vars

(***************************************************************************)
(* The part of ConcSpec that is explored.  All steps of ConcNext are       *)
(* taken, at any point of each other; the inputs are bounded.  The         *)
(* locators the callers start with are a registry-backed one, a            *)
(* client-synthesized one, or one of each.  The options set on the builder *)
(* in use and on the click in flight are MaxConcSetters together.  There   *)
(* are MaxConcLocators locators of a kind: a chaining call is followed     *)
(* when it panics, fails, is dropped or finds the frame torn down, and not *)
(* when it adds a locator to those the callers started with.               *)
(***************************************************************************)
MaxConcSetters == 1

MaxConcLocators == 1

Within ==
    /\ Cardinality({g \in DOMAIN flight.opts : flight.opts[g] # None})
         + (IF last.op \in DOMAIN Builders
            THEN Cardinality({g \in DOMAIN last.opts :
                                 IF g = "files" THEN last.opts[g] # <<"f">>
                                 ELSE last.opts[g] # None})
            ELSE 0) <= MaxConcSetters
    /\ \A c \in BOOLEAN :
          Cardinality({i \in DOMAIN locators :
                          (locators[i].channel = None) = c})
            <= MaxConcLocators

ConcInit ==
    /\ locators \in
          {<<[channel |-> Some(1), selector |-> Selectors.simple,
              frame |-> 1]>>,
           <<new_client_side(1, Selectors.simple)>>,
           <<[channel |-> Some(1), selector |-> Selectors.simple,
              frame |-> 1],
             new_client_side(1, Selectors.simple)>>}
    /\ frameLive = TRUE
    /\ value = [e \in DOMAIN Doc |-> IF Doc[e].editable THEN "x" ELSE ""]
    /\ nextGuid = 2
    /\ pc = "ready"
    /\ last = Idle
    /\ disposed = {}
    /\ sessionOpen = TRUE
    /\ late = FALSE
    /\ flight = [loc |-> 0, opts |-> NoOpts, res |-> Unit, done |-> FALSE,
                 sole |-> FALSE]

\* ConcNext, each step taken when it stays within the bounds
ConcBoundedNext ==
    \/ Build /\ Within'
    \/ SetOptions /\ Within'
    \/ ClickResolved /\ Within'
    \/ ClickCompleted /\ Within'
    \/ Click /\ Within'
    \/ DblClick /\ Within'
    \/ Fill /\ Within'
    \/ Hover /\ Within'
    \/ Check /\ Within'
    \/ Uncheck /\ Within'
    \/ Press /\ Within'
    \/ Type /\ Within'
    \/ SetInputFiles /\ Within'
    \/ Focus /\ Within'
    \/ Blur /\ Within'
    \/ Clear /\ Within'
    \/ SelectOption /\ Within'
    \/ TextContent /\ Within'
    \/ InnerText /\ Within'
    \/ InnerHtml /\ Within'
    \/ GetAttribute /\ Within'
    \/ InputValue /\ Within'
    \/ Count /\ Within'
    \/ IsState /\ Within'
    \/ Selector /\ Within'
    \/ First /\ Within'
    \/ Last /\ Within'
    \/ Nth /\ Within'
    \/ Filter /\ Within'
    \/ TearDownFrame /\ Within'
    \/ Dispose /\ Within'
    \/ TearDownSession /\ Within'
    \/ Settle /\ Within'
    \/ Resume /\ Within'
    \/ Abandon /\ Within'
    \/ LateReply /\ Within'
    \/ Lookup /\ Within'
    \/ Eq /\ Within'
    \/ Return /\ Within'

ConcBounded == ConcInit /\ [][ConcBoundedNext]_vars

(***************************************************************************)
(* Properties.  A completed call is read from last while pc = "returned":  *)
(* all its calls are in last.calls then.  The frame can be torn down while *)
(* the call is suspended, so last.live, not frameLive, says whether the    *)
(* frame upgraded when the operation was entered.                          *)
(* Returned is a completed call on a locator whose object is alive, the    *)
(* call being neither the selector() accessor nor a comparison of handles. *)
(***************************************************************************)
Returned ==
    /\ pc = "returned"
    /\ last.loc \notin disposed
    /\ last.op \notin {"selector", "eq"}

\* The locator the completed call was made on
Target == locators[last.loc]

ClientSide(l) == l.channel = None

\* The elements the calls of the completed operation touched
Touched == {last.calls[k].el : k \in DOMAIN last.calls} \ {0}

\* The matches of a selector in document order, <<>> if the engine rejects it
Matches(sel) == QuerySelectorAll(sel, NoFault).els

ChainingOps == {"first", "last", "nth", "filter"}

QueryOps ==
    {"text_content", "inner_text", "inner_html", "get_attribute",
     "input_value"} \cup Args.state

MarkerOps ==
    {"fill", "clear", "set_input_files", "text_content", "get_attribute",
     "input_value"}

\* The target is the marker-form locator of a compound base whose index is
\* past the matches of the base query
OutOfRangeMarker(l) ==
    /\ ClientSide(l)
    /\ ParseMarker(l.selector).marker
    /\ EngineQuery(ParseMarker(l.selector).base_selector).valid
    /\ ParseMarker(l.selector).index
          >= Len(Matches(ParseMarker(l.selector).base_selector))

InRangeMarker(l) ==
    /\ ClientSide(l)
    /\ ParseMarker(l.selector).marker
    /\ ParseMarker(l.selector).index
          < Len(Matches(ParseMarker(l.selector).base_selector))

\* C1: once the frame is torn down, every public operation on every locator
\* completes with Error::ObjectNotFound (no panic, no success value).
C1_TornDownFrameIsNotFound ==
    (Returned /\ ~last.live) => last.pub = Err("ObjectNotFound")

\* C2: on a client-synthesized locator with a compound selector whose union
\* has n matches, every resolving operation on nth(i), 0 <= i < n, acts on
\* element i of query_selector_all(selector) and on no other element.
C2_CompoundNthActsOnUnionElement ==
    \A i \in Args.index :
        (/\ Returned
         /\ last.live
         /\ last.env = NoFault
         /\ last.op \notin ChainingOps \cup {"count", "blur", ""}
         /\ 0 <= i
         /\ i < Len(Matches(Selectors.compound))
         /\ Target = new_client_side(1, NthSelector(Selectors.compound, i)))
        => Touched = {Matches(Selectors.compound)[i + 1]}

\* C3: on a client-synthesized locator with selector s, every query operation
\* on nth(i) reads the element query_selector_all(s)[i].
C3_QueriesReadIndexedElement ==
    \A s \in {Selectors.simple, Selectors.compound} : \A i \in Args.index :
        (/\ Returned
         /\ last.live
         /\ last.env = NoFault
         /\ last.op \in QueryOps
         /\ 0 <= i
         /\ i < Len(Matches(s))
         /\ Target = new_client_side(1, NthSelector(s, i)))
        => (IsOk(last.res) /\ last.res.n = Matches(s)[i + 1])

\* C4: get_attribute on a marker-form locator whose base query returns fewer
\* than index + 1 elements reports the absent value: no attribute of any
\* element is returned, the only delegate call is the base query (no
\* primitive runs on an element), and the call does not panic.
C4_OutOfRangeAttributeIsAbsent ==
    (/\ Returned
     /\ last.live
     /\ last.op = "get_attribute"
     /\ "query" \notin last.env
     /\ OutOfRangeMarker(Target))
    => (/\ last.res = Ok("none", 0, "")
        /\ last.pub = Ok("none", 0, "")
        /\ Touched = {}
        /\ Len(last.calls) = 1
        /\ last.calls[1].fn = "frame.query_selector_all"
        /\ last.calls[1].sel = ParseMarker(Target.selector).base_selector)

C4_Witness ==
    /\ Returned
    /\ last.live
    /\ last.op = "get_attribute"
    /\ last.env = NoFault
    /\ OutOfRangeMarker(Target)
    /\ Len(Matches(ParseMarker(Target.selector).base_selector)) > 0
    /\ last.pub = Ok("none", 0, "")

\* C5: an out-of-range index has one outcome in every operation that
\* resolves a marker-form selector: the call ends with the target-not-found
\* error, never with a success value.
C5_OutOfRangeIsUniformlyNotFound ==
    (/\ Returned
     /\ last.live
     /\ last.op \in MarkerOps
     /\ last.env = NoFault
     /\ OutOfRangeMarker(Target))
    => last.pub = Err("ObjectNotFound")

\* C6: on a client-synthesized locator clear(options) makes the delegate
\* calls, returns the result and leaves the page that fill("", options) with
\* the same force/no_wait_after/timeout makes, returns and leaves; clearing
\* the page it left again leaves that page.  (The calls are the one made on
\* entry and those still to make; the page left is there when the call has
\* returned.)
ClearStep ==
    /\ pc = "building"
    /\ pc' \in {"returned", "suspended"}
    /\ last'.op = "clear"
    /\ ClientSide(locators[last'.loc])

ClearIsFillEmpty ==
    /\ ClearStep =>
        /\ last'.calls \o last'.todo
              = fill(locators[last'.loc], "", last'.opts, last'.env,
                     value).calls
        /\ last'.res = fill(locators[last'.loc], "", last'.opts, last'.env,
                            value).res
        /\ last'.after = fill(locators[last'.loc], "", last'.opts, last'.env,
                              value).value
        /\ clear(locators[last'.loc], last'.opts, last'.env,
                 last'.after).value
              = last'.after
        /\ value' = value
    /\ (pc' = "returned" /\ last'.op = "clear"
          /\ ClientSide(locators[last'.loc]))
        => (value' = last'.after /\ last'.todo = <<>>)

C6_ClearIsFillEmpty == [][ClearIsFillEmpty]_vars

C6_Witness ==
    /\ Returned
    /\ last.op = "clear"
    /\ InRangeMarker(Target)
    /\ last.opts.timeout = Some(30)
    /\ IsOk(last.res)
    /\ Len(last.calls) = 2
    /\ last.calls[2].fn = "element.fill"
    /\ last.calls[2].arg = ""
    /\ value[last.calls[2].el] = ""

\* C7: for every operation on a locator whose XPath selector contains
\* ancestor::, while the script evaluator works the selector reaches a native
\* frame primitive only after a script evaluation that failed.
C7_AncestorXPathNeverNativeFirst ==
    (/\ Returned
     /\ "eval" \notin last.env
     /\ StartsWith(Target.selector, Tokens.xpath)
     /\ Contains(Target.selector, Tokens.ancestor))
    => \A k \in DOMAIN last.calls :
          (last.calls[k].fn # "frame.evaluate"
           /\ last.calls[k].sel = Target.selector)
          => \E j \in 1..(k - 1) :
                last.calls[j].fn = "frame.evaluate" /\ ~last.calls[j].ok

\* C8: in the unsafe-XPath path of text_content the evaluator is called once,
\* first; after a successful evaluation nothing else is called; after a failed
\* one exactly one native text_content(selector, None) follows and its result
\* is the result of the operation.
UnsafeXPathText ==
    /\ Returned
    /\ last.live
    /\ last.op = "text_content"
    /\ StartsWith(Target.selector, Tokens.xpath)
    /\ is_complex_xpath(Target.selector)

C8_EvaluationFallsBackOnce ==
    UnsafeXPathText =>
        /\ Len(last.calls) >= 1
        /\ last.calls[1].fn = "frame.evaluate"
        /\ \A k \in DOMAIN last.calls :
              last.calls[k].fn = "frame.evaluate" => k = 1
        /\ last.calls[1].ok => (Len(last.calls) = 1 /\ IsOk(last.res))
        /\ ~last.calls[1].ok =>
              /\ Len(last.calls) = 2
              /\ last.calls[2].fn = "frame.text_content"
              /\ last.calls[2].sel = Target.selector
              /\ last.calls[2].opts = [timeout |-> None]
              /\ last.res = FramePrimitive("text_content", Target.selector, "",
                                           [timeout |-> None],
                                           last.env \ {"eval"}, value).res
              /\ IsOk(last.res) = last.calls[2].ok

C8_Witness ==
    /\ UnsafeXPathText
    /\ last.env = {"eval"}
    /\ Len(last.calls) = 2
    /\ last.calls[2].fn = "frame.text_content"
    /\ last.res = Ok("some", 1, "")

\* The element a read through the locator resolves to (0: none)
ResolvesTo(l) == text_content(l, None, NoFault, value).res.n

\* C9: nth(i) and nth(j), i # j, of the same client-synthesized base have
\* distinct selectors, and a read through one never resolves to the element
\* a read through the other resolves to.  The locator nth(j) has just made
\* is compared with the locator nth(i) makes of the same base.
C9_NthLocatorsNeverAlias ==
    \A i \in Args.index :
        (/\ Returned
         /\ last.live
         /\ last.op = "nth"
         /\ IsOk(last.res)
         /\ ClientSide(Target)
         /\ i # last.idx)
        => (/\ locators[last.res.n].selector
                 # nth(Target, i, NoFault, value).new.selector
            /\ (ResolvesTo(locators[last.res.n]) = 0
                \/ ResolvesTo(locators[last.res.n])
                     # ResolvesTo(nth(Target, i, NoFault, value).new)))

\* The path an operation took: "peer" when it went to the channel (or
\* panicked reaching for it), "delegate" when it went to the frame (or found
\* the frame gone), "none" when it needed neither
PathOf(out) ==
    IF out.res = Panic THEN "peer"
    ELSE IF out.calls # <<>>
    THEN (IF out.calls[1].fn = "channel.send" THEN "peer" ELSE "delegate")
    ELSE IF out.res = Err("ObjectNotFound") THEN "delegate"
    ELSE "none"

\* The paths the operations of a locator take in the current state
PathsOf(l) ==
    {PathOf(click(l, CHOOSE args \in Args.click :
                        \A f \in DOMAIN args : args[f] = None,
                  NoFault, value)),
     PathOf(blur(l, None, NoFault, value)),
     PathOf(clear(l, CHOOSE args \in Args.fill :
                        \A f \in DOMAIN args : args[f] = None,
                  NoFault, value)),
     PathOf(input_value(l, None, NoFault, value)),
     PathOf(count(l, NoFault, value))}

\* C10: every locator instance has one resolution path: all its operations
\* take the peer-message path or all take the frame-delegate path, whatever
\* the state of the frame reference.
C10_OneResolutionModePerInstance ==
    \A i \in DOMAIN locators : Cardinality(PathsOf(locators[i])) = 1

\* Whether a call went to the Frame delegate (a primitive, a query or evaluate)
OnFrame(call) ==
    call.fn \in
        {"frame.click", "frame.dblclick", "frame.fill", "frame.hover",
         "frame.check", "frame.uncheck", "frame.set_input_files",
         "frame.focus", "frame.select_option", "frame.text_content",
         "frame.inner_text", "frame.inner_html", "frame.get_attribute",
         "frame.evaluate", "frame.query_selector",
         "frame.query_selector_all"}
        \cup {"frame." \o fn : fn \in Args.state}

\* The name of the message an operation sends
MessageOf(op) == IF op = "input_value" THEN "inputValue" ELSE op

\* C11: every action and query of a registry-backed locator is carried out by
\* one message to the locator's own guid, named after the operation; none
\* calls a Frame delegate primitive with the selector.
C11_RegistryBackedSendsOneMessage ==
    (/\ Returned
     /\ ~ClientSide(Target)
     /\ last.op \notin ChainingOps)
    => (/\ Len(last.calls) = 1
        /\ last.calls[1].fn = "channel.send"
        /\ last.calls[1].el \in Target.channel
        /\ last.calls[1].arg = MessageOf(last.op))

\* C12: on a client-synthesized locator with a live frame, first, last,
\* filter, blur and input_value complete with a result or an error value;
\* none panics for want of a channel.
C12_ClientSideNeverPanics ==
    (/\ Returned
     /\ last.live
     /\ ClientSide(Target)
     /\ last.op \in {"first", "last", "filter", "blur", "input_value"})
    => last.res # Panic

\* C13: a timeout, a transport failure or an invalid-parameters error reported
\* by the peer or the Frame delegate reaches the caller as an error of the
\* same category.
C13_ErrorCategoryPreserved ==
    (/\ Returned
     /\ last.res.kind = "err"
     /\ last.res.err \in {"Timeout", "Transport", "InvalidParams"})
    => last.pub = last.res

\* C16: for every operation on a locator with a well-formed marker selector,
\* every selector handed to the Frame delegate is the unmarked base selector
\* (for evaluate: the script over the base selector), never the marker text.
C16_MarkerNeverReachesDelegate ==
    (/\ Returned
     /\ ClientSide(Target)
     /\ ParseMarker(Target.selector).marker)
    => \A k \in DOMAIN last.calls :
          OnFrame(last.calls[k]) =>
              last.calls[k].sel \in
                  {ParseMarker(Target.selector).base_selector,
                   EscapeQuotes(ParseMarker(Target.selector).base_selector)}


\* The completed call resolved an element of the page whose handle no longer
\* upgrades (the Weak<ElementHandle> of an existing match is dead)
HandleGone ==
    /\ last.live
    /\ "gone" \in last.env
    /\ \/ /\ last.op \in {"fill", "clear", "set_input_files", "text_content",
                          "get_attribute"}
          /\ InRangeMarker(Target)
       \/ /\ last.op = "text_content"
          /\ ~UnsafeXPathText
          /\ ~ParseMarker(Target.selector).marker
          /\ ParseNthOfType(Target.selector).nth
          /\ ParseNthOfType(Target.selector).array_index
                < Len(Matches(ParseNthOfType(Target.selector).base_selector))
       \/ /\ last.op \in {"press", "type"}
          /\ Matches(Target.selector) # <<>>

\* A sub-step of the completed call failed: a delegate call, script evaluation
\* or peer message returned an error (the script evaluation of an Unsafe XPath
\* text read excepted), or an element handle did not upgrade
SubStepFailed ==
    \/ \E k \in DOMAIN last.calls :
          /\ ~last.calls[k].ok
          /\ ~(UnsafeXPathText /\ k = 1 /\ last.calls[k].fn = "frame.evaluate")
    \/ HandleGone

\* C14: no failure is turned into a success: when a sub-step of an operation
\* failed (frame query, element-handle upgrade, script evaluation, peer
\* message), the operation returns an error, the one native retry after a
\* failed XPath script evaluation excepted.
C14_NoFailureBecomesSuccess ==
    (Returned /\ SubStepFailed) => last.res.kind = "err"


\* A call on a disposed locator returns to its caller
CallOnDisposed ==
    /\ pc \in {"ready", "building"}
    /\ pc' \in {"returned", "pending", "suspended"}
    /\ last'.loc \in disposed
    /\ last'.op # "eq"

\* C15: once a locator's object has been disposed, every later call on a
\* public handle to it (selector() and every builder terminal included)
\* returns Error::ObjectNotFound without calling the frame delegate or sending
\* a peer message; it changes nothing and hands back no earlier data.
C15_DisposedLocatorIsNotFound ==
    [][CallOnDisposed =>
          /\ last'.pub = Err("ObjectNotFound")
          /\ last'.res = Err("ObjectNotFound")
          /\ last'.calls = <<>>
          /\ value' = value
          /\ locators' = locators
          /\ nextGuid' = nextGuid]_vars

\* A fill through a builder of a disposed registry-backed locator, the frame
\* alive and the delegate healthy: the call that would otherwise have written
\* the field
C15_Witness ==
    /\ pc = "returned"
    /\ last.loc \in disposed
    /\ last.op = "fill"
    /\ last.live
    /\ last.env = NoFault
    /\ IsOk(fill(locators[last.loc], last.arg, last.opts, NoFault, value).res)
    /\ last.pub = Err("ObjectNotFound")


\* A client-synthesized nth on a selector containing a comma has just made a
\* locator
MadeMarker ==
    /\ Returned
    /\ last.op = "nth"
    /\ ClientSide(Target)
    /\ Contains(Target.selector, <<",">>)
    /\ IsOk(last.res)

\* The parse of the marker scan when it gives back base selector s, index i
RoundTrip(s, i) ==
    [marker |-> TRUE, base_selector |-> s, index |-> i, big |-> <<>>]

\* C17: marker selectors round-trip exactly: the selector nth produces from a
\* base selector s containing a comma and an index i is parsed by the
\* resolving operations back into exactly s and i, also when s is itself a
\* marker-form selector (nth applied to the result of nth).
C17_MarkerRoundTrips ==
    MadeMarker =>
        /\ ParseMarker(locators[last.res.n].selector)
              = RoundTrip(Target.selector, last.idx)
        /\ \A i \in Args.index :
              ParseMarker(nth(locators[last.res.n], i, NoFault, value)
                             .new.selector)
                 = RoundTrip(locators[last.res.n].selector, i)


\* s has a comma outside every bracket and parenthesis pair
RECURSIVE CommaAtTop(_, _)
CommaAtTop(s, depth) ==
    IF s = <<>> THEN FALSE
    ELSE IF Head(s) \in {"(", "["} THEN CommaAtTop(Tail(s), depth + 1)
    ELSE IF Head(s) \in {")", "]"}
    THEN CommaAtTop(Tail(s), IF depth > 0 THEN depth - 1 ELSE 0)
    ELSE IF Head(s) = "," /\ depth = 0 THEN TRUE
    ELSE CommaAtTop(Tail(s), depth)

\* C18: nth on a client-synthesized locator produces the marker form exactly
\* when the selector has a comma at top level, and the :nth-of-type form
\* otherwise; a selector whose only commas are inside parentheses or brackets
\* is treated as simple.
C18_MarkerFormIffTopLevelComma ==
    (Returned /\ last.op = "nth" /\ ClientSide(Target) /\ IsOk(last.res))
    => locators[last.res.n].selector =
          IF CommaAtTop(Target.selector, 0)
          THEN MarkerSelector(Target.selector, last.idx)
          ELSE NthOfTypeSelector(Target.selector, last.idx)

\* The selector has the marker's shape but its suffix is not an unsigned
\* integer
MalformedMarker(sel) ==
    /\ StartsWith(sel, <<"(">>)
    /\ Contains(sel, Tokens.marker)
    /\ ~ParseMarker(sel).marker

\* The delegate call of an operation's default path
DefaultPrimitive(op) ==
    CASE op = "clear" -> "frame.fill"
      [] op = "input_value" -> "frame.evaluate"
      [] OTHER -> "frame." \o op

\* C19: a malformed marker never causes an error or panic in the parser: on a
\* selector that starts with "(" and contains ")>>>nth-index-" but whose
\* suffix is not an unsigned integer, each resolving operation makes no base
\* query and takes the default path, passing the selector unchanged to the
\* frame delegate's regular primitive.
C19_MalformedMarkerTakesDefaultPath ==
    (Returned /\ last.live /\ ClientSide(Target)
     /\ MalformedMarker(Target.selector) /\ last.op \in MarkerOps)
    => /\ last.res # Panic
       /\ Len(last.calls) = 1
       /\ last.calls[1].fn = DefaultPrimitive(last.op)
       /\ last.calls[1].sel = IF last.op = "input_value"
                              THEN EscapeQuotes(Target.selector)
                              ELSE Target.selector

\* The selector is an XPath expression, with the prefix or bare
IsXPath(sel) == StartsWith(sel, Tokens.xpath) \/ StartsWith(sel, <<"/", "/">>)

\* C20: a text read classifies an XPath selector Unsafe and reroutes it to
\* script evaluation exactly when it contains a union operator or one of the
\* axis keywords ancestor::, descendant::, following::, preceding::, for the
\* "xpath=" form and the bare "//" form alike; any other selector is Safe and
\* is sent natively.
C20_UnsafeXPathIffAxisOrUnion ==
    (Returned /\ last.live /\ last.op = "text_content")
    => /\ last.calls # <<>>
       /\ (last.calls[1].fn = "frame.evaluate")
             <=> (IsXPath(Target.selector)
                  /\ is_complex_xpath(Target.selector))


\* C21: a caller-supplied timeout bounds the whole operation: every awaited
\* sub-step of an operation called with a timeout (frame primitive, query,
\* element primitive, script evaluation, native fallback, peer message) is
\* given that timeout.
C21_TimeoutReachesEverySubStep ==
    (Returned /\ "timeout" \in DOMAIN last.opts /\ last.opts.timeout # None)
    => \A k \in DOMAIN last.calls :
          /\ "timeout" \in DOMAIN last.calls[k].opts
          /\ last.calls[k].opts.timeout = last.opts.timeout


\* A completed press or type call with the frame alive
KeyCall == Returned /\ last.live /\ last.op \in {"press", "type"}

\* C27: press and type first run one single-result query (query_selector)
\* with the locator's selector and only then invoke the key primitive, on the
\* element that query returned and with the caller's delay, timeout and
\* no_wait_after; when the query returns no element or the handle is no
\* longer live, the operation returns ObjectNotFound and invokes no primitive.
C27_KeyOpsResolveThenAct ==
    KeyCall =>
        /\ Len(last.calls) >= 1
        /\ last.calls[1].fn = "frame.query_selector"
        /\ last.calls[1].sel = Target.selector
        /\ \A k \in DOMAIN last.calls :
              k > 1 => /\ k = 2
                       /\ last.calls[1].ok
                       /\ last.calls[2].fn = "element." \o last.op
                       /\ Matches(Target.selector) # <<>>
                       /\ last.calls[2].el = Matches(Target.selector)[1]
                       /\ last.calls[2].arg = last.arg
                       /\ last.calls[2].opts = frame_args(last.op, last.opts)
        /\ (last.calls[1].ok
            /\ (Matches(Target.selector) = <<>> \/ "gone" \in last.env))
           => (Len(last.calls) = 1 /\ last.res = Err("ObjectNotFound"))
        /\ (last.calls[1].ok /\ Matches(Target.selector) # <<>>
            /\ "gone" \notin last.env)
           => Len(last.calls) = 2

\* type on a locator whose single match has a dead handle: the query ran, no
\* primitive was invoked, the caller gets ObjectNotFound
C27_Witness ==
    /\ KeyCall
    /\ last.op = "type"
    /\ last.env = {"gone"}
    /\ Matches(Target.selector) # <<>>
    /\ Len(last.calls) = 1
    /\ last.res = Err("ObjectNotFound")


\* l was made by nth on a client-synthesized locator, with an index outside
\* the matches of the parent's selector
NthOutOfRange(l) ==
    \E j \in DOMAIN locators, i \in Args.index :
        /\ ClientSide(locators[j])
        /\ l = new_client_side(1, NthSelector(locators[j].selector, i))
        /\ (i < 0 \/ i >= Len(Matches(locators[j].selector)))

\* C28: nth with an index outside the valid range is a clean not-found: for
\* a negative index and for an index past the matches, on simple and compound
\* selectors alike, every operation on the returned locator that targets an
\* element ends with ObjectNotFound and acts on or reads no element.
C28_OutOfRangeNthIsNotFound ==
    (Returned /\ last.live /\ NthOutOfRange(Target)
     /\ last.op \notin ChainingOps \cup {"blur", "count"})
    => (last.pub = Err("ObjectNotFound") /\ Touched = {})

\* A marker-resolving operation found the indexed element but its handle no
\* longer upgrades
MarkerHandleGone ==
    /\ Returned
    /\ last.live
    /\ last.env = {"gone"}
    /\ InRangeMarker(Target)
    /\ last.op \in {"fill", "set_input_files", "text_content", "get_attribute"}

\* C30: when the element selected by marker resolution disappears between the
\* base query and the element primitive, every marker-resolving operation
\* (fill, set_input_files, text_content, get_attribute) ends with
\* ObjectNotFound: none continues on the default path with the marker
\* selector and none returns a success value.
C30_GoneMarkerElementIsNotFound ==
    MarkerHandleGone =>
        /\ last.res = Err("ObjectNotFound")
        /\ Len(last.calls) = 1
        /\ last.calls[1].fn = "frame.query_selector_all"


\* C29: for a simple (comma-free) selector s and every i32 index i >= 0,
\* nth(i) produces s followed by ":nth-of-type(i+1)", with i + 1 computed
\* without overflow or wrap-around, i = 2^31 - 1 included.
C29_NthOfTypeIndexNeverWraps ==
    (Returned /\ last.op = "nth" /\ ClientSide(Target) /\ last.idx >= 0
     /\ ~Contains(Target.selector, <<",">>))
    => /\ IsOk(last.res)
       /\ locators[Len(locators)].selector =
             Target.selector \o Tokens.nth_of_type
                \o (IF last.idx = MaxI32
                    THEN <<"2", "1", "4", "7", "4", "8", "3", "6", "4", "8">>
                    ELSE NatToStr(last.idx + 1))
                \o <<")">>


\* C26: a locator's selector and frame reference never change after
\* construction: no step modifies an existing locator; selector() on a live
\* locator returns that locator's selector text; and a locator made by nth
\* holds the same frame reference as its parent, which nth leaves unchanged.
C26_SelectorAndFrameNeverChange ==
    [][/\ \A i \in DOMAIN locators :
             i \in DOMAIN locators' /\ locators'[i] = locators[i]
       /\ (pc = "ready" /\ pc' = "returned" /\ last'.op = "selector"
              /\ last'.loc \notin disposed)
            => (IsOk(last'.pub) /\ last'.pub.tag = "selector"
                  /\ last'.pub.text = locators[last'.loc].selector)
       /\ (last'.op = "nth" /\ Len(locators') > Len(locators))
            => (locators'[Len(locators')].frame
                  = locators[last'.loc].frame)]_vars

\* selector() was called on a locator that nth made from a client-side parent
C26_Witness ==
    /\ pc = "returned"
    /\ last.op = "selector"
    /\ last.loc = 2
    /\ last.loc \notin disposed
    /\ ClientSide(locators[1])
    /\ locators[2].frame = locators[1].frame
    /\ last.pub.text = locators[2].selector
    /\ locators[2].selector # locators[1].selector

\* The calls of an operation that act on the page or the peer (the queries
\* that resolve a selector to element handles are not actions)
ActionCalls(calls) ==
    {n \in DOMAIN calls :
        calls[n].fn \notin {"frame.query_selector", "frame.query_selector_all"}}

\* C25: creating a builder and setting options on it makes no delegate call,
\* sends no peer message and changes neither the page nor the locators; the
\* operation is entered only by the terminal method of its builder, for the
\* builder's locator, value and options, and makes at most one acting call,
\* which carries every option that was set on the builder (the lists of
\* files, values, labels and indices are handed over in another form).
C25_BuildingIsFreeOfEffects ==
    [][/\ pc' = "building"
            => (/\ last'.calls = <<>>
                /\ last'.res = Unit
                /\ value' = value
                /\ locators' = locators
                /\ nextGuid' = nextGuid)
       /\ (pc = "ready" /\ pc' \in {"returned", "pending", "suspended"})
            => last'.op \notin DOMAIN Builders
       /\ (pc = "building" /\ pc' \in {"returned", "pending", "suspended"})
            => (/\ last'.op = last.op
                /\ last'.loc = last.loc
                /\ last'.arg = last.arg
                /\ last'.opts = last.opts
                /\ Cardinality(ActionCalls(last'.calls \o last'.todo)) <= 1
                /\ \A n \in ActionCalls(last'.calls \o last'.todo) :
                      \A f \in DOMAIN last.opts
                               \ {"files", "values", "labels", "indices"} :
                         last.opts[f] # None
                           => /\ f \in DOMAIN (last'.calls \o last'.todo)[n].opts
                              /\ (last'.calls \o last'.todo)[n].opts[f]
                                    = last.opts[f])]_vars

\* C24: a registry-backed chaining call that received a guid returns the
\* locator registered under exactly that guid when it is registered at the
\* lookup, and an error when a disposal removed it between the reply and the
\* lookup; it never returns a removed entry.
C24_LookupSeesObjectOrNothing ==
    [][(pc = "lookup" /\ pc' = "returned")
          => (/\ last.res.tag = "guid"
              /\ last'.op \in ChainingOps
              /\ IF \E i \in DOMAIN locators \ disposed :
                        locators[i].channel = Some(last.res.n)
                 THEN /\ IsOk(last'.pub)
                      /\ last'.pub.tag = "locator"
                      /\ last'.pub.n \in DOMAIN locators \ disposed
                      /\ locators[last'.pub.n].channel = Some(last.res.n)
                 ELSE last'.pub = Err("ObjectNotFound")
              /\ locators' = locators
              /\ disposed' = disposed)]_vars

\* A disposal of the new locator came between the reply and the lookup
C24_Witness ==
    /\ Returned
    /\ last.op \in ChainingOps
    /\ last.env = NoFault
    /\ Len(last.calls) = 1
    /\ last.calls[1].ok
    /\ Len(locators) = 2
    /\ 2 \in disposed
    /\ last.pub = Err("ObjectNotFound")

\* C22: after the session was torn down, a call on a locator that nth made
\* on the client side finds its object gone and returns target-not-found.
C22_NthLocatorsDieWithSession ==
    (/\ pc = "returned"
     /\ ~sessionOpen
     /\ last.loc > 1
     /\ ClientSide(locators[last.loc]))
    => (last.loc \in disposed /\ last.pub = Err("ObjectNotFound"))

\* A client-side query on a live frame whose selector the engine accepts and
\* which matches no element
AbsentTarget ==
    /\ Returned
    /\ ClientSide(Target)
    /\ last.live
    /\ last.env = NoFault
    /\ QuerySelectorAll(Target.selector, NoFault).ok
    /\ Matches(Target.selector) = <<>>
    /\ ~ParseMarker(Target.selector).marker

\* C31: on a client-side locator, count makes exactly one query_selector_all
\* call, with no retry, and returns the length of its result; input_value on
\* a selector that matches no element returns ObjectNotFound, not an empty
\* string.
C31_AbsenceIsNotFound ==
    /\ (Returned /\ ClientSide(Target) /\ last.live /\ last.op = "count")
         => /\ Len(last.calls) = 1
            /\ last.calls[1].fn = "frame.query_selector_all"
            /\ last.calls[1].ok
                 => last.res = Ok("usize", Len(Matches(Target.selector)), "")
    /\ (AbsentTarget /\ last.op = "input_value")
         => last.res = Err("ObjectNotFound")

\* The calls of the completed operation that perform a fill
FillCalls ==
    {n \in DOMAIN last.calls :
        last.calls[n].fn \in {"frame.fill", "element.fill"}}

\* C32: every option set on a fill or clear builder (force, no_wait_after,
\* timeout) reaches the primitive that performs the fill, on the regular path
\* (frame fill) and on the marker path (element fill) alike.
C32_FillOptionsReachPrimitive ==
    (Returned /\ last.op \in {"fill", "clear"} /\ ClientSide(Target))
    => \A n \in FillCalls :
          \A f \in DOMAIN last.opts :
             last.opts[f] # None
               => /\ f \in DOMAIN last.calls[n].opts
                  /\ last.calls[n].opts[f] = last.opts[f]

\* A text_content call on a locator the caller wrote the selector of (the
\* base locator, not one made by nth), whose selector has neither the
\* "xpath=" prefix nor a well-formed marker
TextOfWrittenSelector ==
    /\ Returned
    /\ last.op = "text_content"
    /\ last.loc = 1
    /\ last.live
    /\ ~StartsWith(Target.selector, Tokens.xpath)
    /\ ~ParseMarker(Target.selector).marker

\* C34: text_content passes a selector that nth() did not produce unchanged
\* to the frame's text_content primitive, a written selector that contains
\* ":nth-of-type(" followed by further selector text included: the one call
\* made is frame.text_content with the full selector, and the element read is
\* the one the frame resolves for it.
C34_WrittenSelectorGoesToFrame ==
    TextOfWrittenSelector =>
        /\ Len(last.calls) = 1
        /\ last.calls[1].fn = "frame.text_content"
        /\ last.calls[1].sel = Target.selector
        /\ last.env = NoFault
             => Touched = {QuerySelector(Target.selector, NoFault).els[k] :
                             k \in DOMAIN QuerySelector(Target.selector,
                                                        NoFault).els}

\* The locators nth made on the client side: all but the first are made by
\* the chaining operations, and only nth makes one without a channel
MadeByNth == {i \in DOMAIN locators : i > 1 /\ ClientSide(locators[i])}

\* C36: a handle returned by nth on a client-synthesized locator stays
\* resolvable whatever happens later (the frame torn down, other objects
\* disposed, the session ended): its locator is never released, selector() on
\* it succeeds and returns the synthesized selector, and each successful nth
\* call adds exactly one such locator.
C36_NthHandleStaysResolvable ==
    /\ [](MadeByNth \cap disposed = {})
    /\ []((pc = "returned" /\ last.op = "selector" /\ last.loc \in MadeByNth)
            => /\ IsOk(last.pub)
               /\ last.pub.text = locators[last.loc].selector)
    /\ [][/\ \A i \in DOMAIN locators :
                i \in DOMAIN locators' /\ locators'[i] = locators[i]
          /\ (/\ pc = "ready"
              /\ pc' = "returned"
              /\ last'.op = "nth"
              /\ ClientSide(locators[last'.loc])
              /\ IsOk(last'.res))
               => /\ Len(locators') = Len(locators) + 1
                  /\ locators'[Len(locators')].selector =
                        NthSelector(locators[last'.loc].selector, last'.idx)
                  /\ MadeByNth' = MadeByNth \cup {Len(locators')}]_vars

\* selector() answered on an nth-made handle after the session ended
C36_Witness ==
    /\ pc = "returned"
    /\ last.op = "selector"
    /\ last.loc \in MadeByNth
    /\ ~sessionOpen
    /\ ~frameLive
    /\ last.pub.text = NthSelector(locators[1].selector, 0)

\* The files a sequence of files holds
FileSet(files) == {files[k] : k \in DOMAIN files}

\* The file the set-input-files builder is constructed with: the argument
\* struct before any setter ran
ConstructorFiles ==
    FileSet((CHOOSE a \in Args.files :
                a.files = <<"f">> /\ a.timeout = None
                   /\ a.no_wait_after = None).files)

\* The calls of the completed operation that upload files
UploadCalls ==
    {n \in DOMAIN last.calls :
        last.calls[n].fn \in {"frame.set_input_files",
                              "element.set_input_files"}}

\* C37: files(list) adds the listed files to the upload: the files passed to
\* the set_input_files primitive contain the file the builder was constructed
\* with and every file of the list.
C37_FilesAddsToUpload ==
    (Returned /\ last.op = "set_input_files")
    => \A n \in UploadCalls :
          /\ ConstructorFiles \subseteq FileSet(last.calls[n].opts.files)
          /\ FileSet(last.opts.files) \subseteq FileSet(last.calls[n].opts.files)

\* The selections a caller passed, in a list: <<>> when absent
Listed(o) == IF o = None THEN <<>> ELSE CHOOSE x \in o : TRUE

\* The options list select_option is to pass for the caller's selections:
\* values, labels, indices in this order, each index as the option index it
\* is
ExpectedOptions(args) ==
    [k \in 1..Len(Listed(args.values)) |-> <<"Value", Listed(args.values)[k]>>]
    \o [k \in 1..Len(Listed(args.labels)) |->
          <<"Label", Listed(args.labels)[k]>>]
    \o [k \in 1..Len(Listed(args.indices)) |->
          <<"Index", [low |-> Listed(args.indices)[k], high |-> FALSE]>>]

\* C38: select_option passes the selections in the order values, labels,
\* indices, each index unchanged as a non-negative option index (a negative
\* i32 index does not become a different, large index), and passes no options
\* list when values, labels and indices are all absent or empty.
C38_SelectionsPassedInOrder ==
    (Returned /\ last.op = "select_option")
    => \A n \in DOMAIN last.calls :
          /\ last.calls[n].fn = "frame.select_option"
          /\ last.calls[n].opts.options =
                IF ExpectedOptions(last.opts) = <<>> THEN None
                ELSE Some(ExpectedOptions(last.opts))
          /\ last.calls[n].opts.options # None
               => \A k \in DOMAIN Listed(last.calls[n].opts.options) :
                     Listed(last.calls[n].opts.options)[k][1] = "Index"
                       => ~Listed(last.calls[n].opts.options)[k][2].high

\* A comparison of two handles returned
Compared == pc = "returned" /\ last.op = "eq"

\* C35: equality of public handles is total and consistent: a comparison
\* never panics (two client-synthesized locators included), a handle to a
\* live locator equals itself and its clones, and a handle whose locator is
\* gone equals nothing, itself included.
C35_EqualityIsTotal ==
    Compared =>
        /\ last.res.kind = "ok"
        /\ (last.loc = last.idx /\ last.loc \notin disposed)
             => last.res = Ok("bool", 1, "")
        /\ (last.loc \in disposed \/ last.idx \in disposed)
             => last.res = Ok("bool", 0, "")

\* What frame.click returns for the click in flight under the faults env
Delegated(env) ==
    FramePrimitive("click", locators[flight.loc].selector, "",
                   frame_args("click", flight.opts), env, value)

\* The frame or the locator i is gone: no Arc of it is left, with the
\* registry or with a call that upgraded before
Gone(i) == ~FrameUpgrades \/ ~LocatorUpgrades(i)

\* C33: calls running at the same time do not break each other.  Whatever
\* the first caller does while the click of the second is in flight (setting
\* options, any operation, the peer disposing the click's locator, the frame
\* or the session being torn down, a call failing, a suspended or pending
\* call being dropped by its caller), the click stays in flight with its
\* locator and arguments, and ends, at whatever point of the first caller's
\* call, by returning what the frame returned: never Error::ObjectNotFound
\* for an object the registry let go of meanwhile, and never a panic, also
\* when the click held the last Arc of its locator or frame.  The step that
\* ends it leaves the first caller's call as it is, and a call dropped by its
\* caller leaves the click as it is.  A call of the first caller panics only
\* for a reason of its own: a message on, or a comparison of, a locator
\* without a channel, or the overflow of nth's index + 1 in a build that
\* checks it.
C33_InFlightClickCompletes ==
    [][/\ (flight.loc # 0 /\ flight'.loc # 0)
            => (/\ flight' = flight
                /\ locators'[flight.loc] = locators[flight.loc])
       /\ (flight.loc # 0 /\ flight'.loc = 0)
            => (/\ flight'.done
                /\ \E env \in Faults.prim :
                      /\ flight'.res = Delegated(env).res
                      /\ value' = Delegated(env).value
                /\ flight'.res \notin {Panic, Err("ObjectNotFound")}
                /\ \E i \in {flight.loc} : flight'.sole = Gone(i)'
                /\ UNCHANGED <<locators, frameLive, disposed, pc, last,
                               late>>)
       /\ (pc # "returned" /\ pc' = "returned" /\ last'.res = Panic)
            => (\/ /\ ClientSide(locators[last'.loc])
                   /\ last'.op \in {"blur", "first", "last", "filter"}
                \/ /\ ClientSide(locators[last'.loc])
                   /\ last'.op = "input_value"
                   /\ ~last'.live
                \/ /\ last'.op = "eq"
                   /\ \/ ClientSide(locators[last'.loc])
                      \/ ClientSide(locators[last'.idx])
                \/ /\ last'.op = "nth"
                   /\ last'.idx = MaxI32
                   /\ "checked" \in last'.env)
       /\ (pc \in {"pending", "suspended", "lookup"} /\ pc' = "ready")
            => (/\ flight' = flight
                /\ UNCHANGED <<locators, frameLive, disposed>>)]_vars

\* A click returned the frame's success after the registry had let go of its
\* locator and of its frame while it was in flight, and its Arc of the
\* locator was the last: the first caller is suspended in a call on another
\* locator, which it began while the click kept the frame alive, and the
\* reply to a call its caller dropped is still to come
C33_Witness ==
    /\ flight.done
    /\ flight.sole
    /\ IsOk(flight.res)
    /\ 1 \in disposed
    /\ ~frameLive
    /\ pc = "suspended"
    /\ last.loc = 2
    /\ last.todo # <<>>
    /\ late
=============================================================================
